---- MODULE Spec2Model ----
(***************************************************************************)
(* Kabot-1 telemetry pipeline: the logger scripts (flight DHT logger, the  *)
(* MPU-6050 logger, the bench DHT logger with backup and chart, the sound  *)
(* logger), their append-only log files, the backup files and the shared   *)
(* live-state file LATEST_SENSOR_DATA.json; the log readers of the         *)
(* plotters; and the supervisor main.py, which launches the units, polls   *)
(* their handles and terminates them on an operator interrupt.             *)
(*                                                                         *)
(* Units: humidity and temperature are integers in hundredths (20.00 % is  *)
(* 2000); a value formatted with one decimal is an integer in tenths.      *)
(* A file is a record [exists, lines]; a line is a record [kind, f] with   *)
(* kind "H" for the header and "R" for a data record whose fields are f.   *)
(***************************************************************************)
EXTENDS Integers, Sequences, FiniteSets, TLC

\* ------------------------------------------------------------------ bounds
MaxAppends == 2
MaxUpdates == 2
MaxRestarts == 1
MaxTime == 2
MaxMisses == 2
\* clock ticks in a day: a tick is a date (tick \div DayLen) and a time of
\* day (tick % DayLen)
DayLen == 2

\* ------------------------------------------------------------ value domains
NoVal == -1

\* what Adafruit_DHT.read_retry can hand back for humidity (hundredths of a
\* percent; None is NoVal): below, on, inside, on and above the envelope
HumVals == {NoVal, 1990, 2000, 2004, 9000, 9010}
TempVals == {NoVal, 2150}
DhtReadings == [hum : HumVals, temp : TempVals]
NoReading == [hum |-> NoVal, temp |-> NoVal]

\* datetime.now() at second resolution: the clock is an input of each cycle
Times == 1..MaxTime

\* get_mpu_data: six scaled values, in units of 0.0001 (what "{:.4f}" keeps)
MpuReadings == {<<100, 500, 10000, 1000, 0, 500>>}
NoSample == <<>>

Workers == {"dht", "mpu", "dhtOld", "sound"}
BackupWorkers == {"mpu", "dhtOld", "sound"}
DhtWorkers == {"dht", "dhtOld"}
LiveWriters == {"dht", "peer"}
Procs == Workers \cup {"peer", "web"}

VARIABLES
    pc,          \* position of each process in its script
    err,         \* the fault that ended a process ("none" while it runs)
    reading,     \* (humidity, temperature) of the current cycle, DHT loggers
    sample,      \* the six-axis tuple of the current cycle, MPU logger
    timestamp,   \* the timestamp of the current cycle, per worker
    log,         \* DATA_FILE of each worker
    bak,         \* DATA_BACKUP_FILE of each worker that keeps one
    appends,     \* completed appends to each log (history)
    chart,       \* CHART_FILE of the script that draws a chart: 0 when absent
                 \* or not whole, else the number of rows the chart was drawn from
    chartBak,    \* CHART_BACKUP_FILE, likewise
    liveFile,    \* LIVE_DATA_FILE
    full_data,   \* write_live_data's local mapping, per writer
    data_point,  \* the argument of write_live_data, per writer
    written,     \* the data point of each writer's last completed dump (history)
    dumps,       \* completed dumps of each writer (history)
    updates,     \* live-state updates started by the peer writer (history)
    restarts,    \* restarts so far
    misses,      \* the flight DHT logger's cycles in a row without a valid
                 \* reading (history)
    supPc,       \* position of the supervisor (main.py) in its script
    idx,         \* index of the supervisor's current for loop into its list
    running_processes,  \* launch_processes' list of launched units
    outcome,     \* what the launch of each unit came to (history)
    printed,     \* the supervisor's messages so far (history)
    termSent,    \* units sent a terminate request, in order (history)
    DEVNULL,     \* the null-output sink of launch_processes (line 45)
    alerts,      \* units whose ALERT line was printed in the current pass
                 \* of the monitor loop (history)
    reader,      \* the chart script under study ("none" when none is)
    data,        \* the lines of the DATA_FILE that script reads
    rpc,         \* position of each run of the chart script
    SCRIPT_START_TIME,  \* datetime.now() at the start of each run's process
    dates,       \* the lists the scan fills, per run
    temps,
    hums,
    values,      \* the rows of the MPU plotter, the values of the sound plotter
    temp_ma,     \* the moving averages, per run (each value times the
    hum_ma,      \* number of points averaged)
    title_str,   \* start, end and duration of the chart title, per run
    bus,         \* the I2C bus of the MPU-6050 logger: "open", or "none" in
                 \* simulation mode (lines 37-41)
    high,        \* the bytes the two registers of the sensor hold
    low,
    word         \* what read_word_2c returned: <<>> before the call, then the
                 \* one value

vars == <<pc, err, reading, sample, timestamp, log, bak, appends, chart, chartBak, liveFile,
          full_data, data_point, written, dumps, updates, restarts, misses,
          supPc, idx, running_processes, outcome, printed, termSent, DEVNULL, alerts,
          reader, data, rpc, SCRIPT_START_TIME, dates, temps, hums, values, temp_ma, hum_ma,
          title_str, bus, high, low, word>>

workerVars == <<reading, sample, timestamp, log, bak, appends, chart, chartBak>>
liveVars == <<liveFile, full_data, data_point, written, dumps, updates>>
supVars == <<supPc, idx, running_processes, outcome, printed, termSent, DEVNULL, alerts>>
readerVars == <<reader, data, rpc, SCRIPT_START_TIME, dates, temps, hums, values, temp_ma,
                hum_ma, title_str>>
busVars == <<bus, high, low, word>>

\* ------------------------------------------------------------------- files
NoFile == [exists |-> FALSE, lines |-> <<>>]
File(ls) == [exists |-> TRUE, lines |-> ls]
\* a line of a log: the header or a record of fields; nl is the "\n" that
\* ends the text the scripts write
Header == [kind |-> "H", f |-> <<>>, nl |-> TRUE]
Record(fields) == [kind |-> "R", f |-> fields, nl |-> TRUE]

\* open(path, "w"): the file exists and is empty
OpenW(file) == File(<<>>)
\* mode "w" where "a" was meant: the open empties the file
OpenATruncates(file) == File(<<>>)
\* open(path, "a"): the file is created empty when absent, kept otherwise
OpenA(file) == IF file.exists THEN file ELSE File(<<>>)
\* a write that reaches the file in pieces: the text without its end
WriteLineTorn(file, line) == File(Append(file.lines, [line EXCEPT !.nl = FALSE]))
\* f.write(line) on a file opened for append: the text stays in the
\* buffer of the file object and reaches the file whole, at the close
WriteLine(file, line) == File(Append(file.lines, line))

\* the fields of a line of each log: the names of its header
FieldCount(w) == IF w = "mpu" THEN 7 ELSE 3

IsPrefix(s, t) == Len(s) <= Len(t) /\ SubSeq(t, 1, Len(s)) = s

\* -------------------------------------------------------------- formatting
\* "{x:.1f}" and round(x, 1): hundredths to the nearest tenth (no value of
\* the domains lies on a half)
Fmt1(x) == (x + 5) \div 10

\* the two timestamp formats of the scripts
FmtFull == "%Y-%m-%d %H:%M:%S"
FmtTimeOnly == "%H:%M:%S"

\* datetime.now().strftime(fmt): the text names the time of day, and the
\* date only when the format has the date fields
TimeText(fmt, t) ==
    [fmt |-> fmt,
     date |-> IF fmt = FmtFull THEN t \div DayLen ELSE NoVal,
     tod |-> t % DayLen]
\* no timestamp text
NoText == [fmt |-> "", date |-> NoVal, tod |-> NoVal]

\* datetime.strptime(s, fmt): the instant the text names when the text has
\* the shape of the format, ValueError otherwise
ParseError == -2
ParseTime(fmt, s) ==
    IF s.fmt # fmt THEN ParseError
    ELSE IF fmt = FmtFull THEN s.date * DayLen + s.tod ELSE s.tod

\* ------------------------------------------------------------- live state
LiveFields == {"timestamp", "temp", "hum", "motion"}
FieldsOf(p) == IF p = "dht" THEN {"timestamp", "temp", "hum"} ELSE {"motion"}
EmptyDoc == [k \in LiveFields |-> IF k = "timestamp" THEN NoText ELSE NoVal]
PeerVals == {7, 8}

\* the live-state file: absent, empty (opened for writing, nothing flushed
\* yet) or holding one complete JSON document
LiveAbsent == [state |-> "absent", doc |-> EmptyDoc]
LiveEmpty == [state |-> "empty", doc |-> EmptyDoc]
LiveDoc(d) == [state |-> "doc", doc |-> d]

\* full_data.update({...}): the writer's own fields overlaid on the mapping
Overlay(d, p, point) == [k \in LiveFields |-> IF k \in FieldsOf(p) THEN point[k] ELSE d[k]]

\* where write_live_data returns to
AfterLive(p) == IF p = "dht" THEN "sleep" ELSE "idle"

\* write_live_data, lines 36-46: read the existing file; a missing file or a
\* file json.load cannot parse leaves full_data = {}
LiveRead(p) ==
    /\ pc[p] = "live_read"
    /\ full_data' = [full_data EXCEPT ![p] =
                        IF liveFile.state = "doc" THEN liveFile.doc ELSE EmptyDoc]
    /\ pc' = [pc EXCEPT ![p] = "live_update"]
    /\ UNCHANGED <<err, workerVars, liveFile, data_point, written, dumps, updates, restarts, misses, supVars, readerVars,
                   busVars>>

\* lines 49-53
LiveUpdate(p) ==
    /\ pc[p] = "live_update"
    /\ full_data' = [full_data EXCEPT ![p] = Overlay(full_data[p], p, data_point[p])]
    /\ pc' = [pc EXCEPT ![p] = "live_open"]
    /\ UNCHANGED <<err, workerVars, liveFile, data_point, written, dumps, updates, restarts, misses, supVars, readerVars,
                   busVars>>

\* line 57: open(LIVE_DATA_FILE, 'w') truncates the file at once; when the
\* open raises, the except clause swallows the error and the call returns
LiveOpen(p) ==
    /\ pc[p] = "live_open"
    /\ \/ /\ liveFile' = LiveEmpty
          /\ pc' = [pc EXCEPT ![p] = "live_dump"]
       \/ /\ liveFile' = liveFile
          /\ pc' = [pc EXCEPT ![p] = AfterLive(p)]
    /\ UNCHANGED <<err, workerVars, full_data, data_point, written, dumps, updates, restarts, misses, supVars, readerVars,
                   busVars>>

\* line 58 and the close of the with block: the document reaches the file
LiveDump(p) ==
    /\ pc[p] = "live_dump"
    /\ liveFile' = LiveDoc(full_data[p])
    /\ written' = [written EXCEPT ![p] = data_point[p]]
    /\ dumps' = [dumps EXCEPT ![p] = @ + 1]
    /\ pc' = [pc EXCEPT ![p] = AfterLive(p)]
    /\ UNCHANGED <<err, workerVars, full_data, data_point, updates, restarts, misses, supVars, readerVars,
                   busVars>>

\* a second logger that reports to the live-state file with the same
\* read-merge-write routine and its own field
PeerBegin ==
    /\ pc["peer"] = "idle"
    /\ updates < MaxUpdates
    /\ \E v \in PeerVals :
          data_point' = [data_point EXCEPT !["peer"] = [EmptyDoc EXCEPT !["motion"] = v]]
    /\ updates' = updates + 1
    /\ pc' = [pc EXCEPT !["peer"] = "live_read"]
    /\ UNCHANGED <<err, workerVars, liveFile, full_data, written, dumps, restarts, misses, supVars, readerVars,
                   busVars>>

\* ------------------------------------------------- flight DHT logger (dht)
\* the existence test left out: the log is created anew at every start
DhtLogMissingAlways == TRUE

\* line 70: not os.path.exists(DATA_FILE)
DhtLogMissing == ~log["dht"].exists

\* main(), lines 67-79: create the log with its header when it is missing;
\* the log is missing too when makedirs (line 67) or the open fails
DhtMain ==
    /\ pc["dht"] = "main"
    /\ \/ /\ ~DhtLogMissing
          /\ pc' = [pc EXCEPT !["dht"] = "read"]
          /\ UNCHANGED <<err, log>>
       \/ /\ DhtLogMissing
          /\ log' = [log EXCEPT !["dht"] = OpenW(@)]
          /\ pc' = [pc EXCEPT !["dht"] = "header"]
          /\ UNCHANGED err
       \/ /\ DhtLogMissing
          /\ pc' = [pc EXCEPT !["dht"] = "stopped"]
          /\ err' = [err EXCEPT !["dht"] = "init_fault"]
          /\ UNCHANGED log
    /\ UNCHANGED <<reading, sample, timestamp, bak, appends, chart, chartBak, liveVars, restarts, misses, supVars, readerVars,
                   busVars>>

\* line 75
DhtHeader ==
    /\ pc["dht"] = "header"
    /\ log' = [log EXCEPT !["dht"] = WriteLine(@, Header)]
    /\ pc' = [pc EXCEPT !["dht"] = "read"]
    /\ UNCHANGED <<err, reading, sample, timestamp, bak, appends, chart, chartBak, liveVars, restarts, misses, supVars, readerVars,
                   busVars>>

\* the envelope test left out
DhtValidNullOnly(r) == r.hum # NoVal /\ r.temp # NoVal

\* lines 91-92: the null test and the envelope test
DhtValid(r) == r.hum # NoVal /\ r.temp # NoVal /\ 2000 <= r.hum /\ r.hum <= 9000

\* line 89
DhtRead ==
    /\ pc["dht"] = "read"
    /\ appends["dht"] < MaxAppends
    /\ \E r \in DhtReadings :
          /\ DhtValid(r) \/ misses < MaxMisses
          /\ reading' = [reading EXCEPT !["dht"] = r]
    /\ misses' = IF DhtValid(reading["dht"]) THEN 0 ELSE misses
    /\ pc' = [pc EXCEPT !["dht"] = "check"]
    /\ UNCHANGED <<err, sample, timestamp, log, bak, appends, chart, chartBak, liveVars, restarts, supVars, readerVars,
                   busVars>>

\* a logger that leaves its loop at the second cycle in a row without a
\* valid reading
DhtAfterRejectedGiveUp(n) == IF n >= 1 THEN "stopped" ELSE "sleep"
\* lines 112-117: after a cycle without a valid reading, however many went
\* before it, the loop goes to the sleep of line 117
DhtAfterRejected(n) == "sleep"

\* lines 91-94 and 112-115
DhtCheck ==
    /\ pc["dht"] = "check"
    /\ IF DhtValid(reading["dht"])
       THEN /\ \E t \in Times : timestamp' = [timestamp EXCEPT !["dht"] = t]
            /\ pc' = [pc EXCEPT !["dht"] = "append"]
            /\ UNCHANGED misses
       ELSE /\ pc' = [pc EXCEPT !["dht"] = DhtAfterRejected(misses)]
            /\ misses' = misses + 1
            /\ UNCHANGED timestamp
    /\ UNCHANGED <<err, reading, sample, log, bak, appends, chart, chartBak, liveVars, restarts, supVars, readerVars,
                   busVars>>

\* line 97
DhtLine(t, r) == Record(<<TimeText(FmtTimeOnly, t), Fmt1(r.temp), Fmt1(r.hum)>>)

\* line 98: the open; an OSError leaves the while loop through the
\* except Exception clause of lines 125-127 and main_loop returns
DhtAppendOpen ==
    /\ pc["dht"] = "append"
    /\ \/ /\ log' = [log EXCEPT !["dht"] = OpenA(@)]
          /\ pc' = [pc EXCEPT !["dht"] = "write"]
          /\ UNCHANGED err
       \/ /\ pc' = [pc EXCEPT !["dht"] = "stopped"]
          /\ err' = [err EXCEPT !["dht"] = "append_fault"]
          /\ UNCHANGED log
    /\ UNCHANGED <<reading, sample, timestamp, bak, appends, chart, chartBak, liveVars, restarts, misses, supVars, readerVars,
                   busVars>>

\* the data point built from the raw reading, unrounded
DhtPointRaw(t, r) ==
    [k \in LiveFields |->
        CASE k = "timestamp" -> TimeText(FmtTimeOnly, t)
          [] k = "temp" -> r.temp
          [] k = "hum" -> r.hum
          [] OTHER -> NoVal]

\* line 99 and the close; lines 102-106 build the data point
DhtPoint(t, r) ==
    [k \in LiveFields |->
        CASE k = "timestamp" -> TimeText(FmtTimeOnly, t)
          [] k = "temp" -> Fmt1(r.temp)
          [] k = "hum" -> Fmt1(r.hum)
          [] OTHER -> NoVal]

DhtAppendWrite ==
    /\ pc["dht"] = "write"
    /\ log' = [log EXCEPT !["dht"] = WriteLine(@, DhtLine(timestamp["dht"], reading["dht"]))]
    /\ appends' = [appends EXCEPT !["dht"] = @ + 1]
    /\ data_point' = [data_point EXCEPT !["dht"] = DhtPoint(timestamp["dht"], reading["dht"])]
    /\ pc' = [pc EXCEPT !["dht"] = "live_read"]
    /\ UNCHANGED <<err, reading, sample, timestamp, bak, chart, chartBak, liveFile, full_data, written, dumps, updates, restarts, misses, supVars, readerVars,
                   busVars>>

\* line 117
DhtSleep ==
    /\ pc["dht"] = "sleep"
    /\ pc' = [pc EXCEPT !["dht"] = "read"]
    /\ UNCHANGED <<err, workerVars, liveVars, restarts, misses, supVars, readerVars, busVars>>

DhtStep == DhtMain \/ DhtHeader \/ DhtRead \/ DhtCheck \/ DhtAppendOpen \/ DhtAppendWrite \/ DhtSleep

\* ------------------------------------------------------------ backup copy
\* shutil.copyfile(DATA_FILE, DATA_BACKUP_FILE) opens the destination for
\* writing (it exists and is empty from then on) and copies the source
\* front to back; CopyChunk is the destination after one more line
CopyChunk(src, dst) == File(SubSeq(src.lines, 1, Len(dst.lines) + 1))
\* a copy that stops one line short
CopyDoneShort(src, dst) == Len(dst.lines) + 1 >= Len(src.lines)
\* the copy has reached the end of the source
CopyDone(src, dst) == Len(dst.lines) >= Len(src.lines)

\* ------------------------------------------------ MPU-6050 logger (mpu)
\* the existence test left out: startup writes the header over the log
MpuLogMissingAlways == TRUE

\* line 96: not os.path.exists(DATA_FILE)
MpuLogMissing == ~log["mpu"].exists

\* main(), lines 87-103: the wake-up write to the sensor (line 93) raises
\* OSError on a bus error, which nothing catches; then the log is created
\* with its header when it is missing
MpuMain ==
    /\ pc["mpu"] = "main"
    /\ \/ /\ ~MpuLogMissing
          /\ pc' = [pc EXCEPT !["mpu"] = "read"]
          /\ UNCHANGED <<err, log>>
       \/ /\ MpuLogMissing
          /\ log' = [log EXCEPT !["mpu"] = OpenW(@)]
          /\ pc' = [pc EXCEPT !["mpu"] = "header"]
          /\ UNCHANGED err
       \/ /\ MpuLogMissing
          /\ pc' = [pc EXCEPT !["mpu"] = "stopped"]
          /\ err' = [err EXCEPT !["mpu"] = "init_fault"]
          /\ UNCHANGED log
       \/ /\ pc' = [pc EXCEPT !["mpu"] = "stopped"]
          /\ err' = [err EXCEPT !["mpu"] = "bus_fault"]
          /\ UNCHANGED log
    /\ UNCHANGED <<reading, sample, timestamp, bak, appends, chart, chartBak, liveVars, restarts, misses, supVars, readerVars,
                   busVars>>

\* line 100
MpuHeader ==
    /\ pc["mpu"] = "header"
    /\ log' = [log EXCEPT !["mpu"] = WriteLine(@, Header)]
    /\ pc' = [pc EXCEPT !["mpu"] = "read"]
    /\ UNCHANGED <<err, reading, sample, timestamp, bak, appends, chart, chartBak, liveVars, restarts, misses, supVars, readerVars,
                   busVars>>

\* lines 114-116: get_mpu_data returns six values, or bus.read_byte_data
\* (lines 46-47) raises OSError, which nothing catches before the
\* except Exception clause of lines 139-140, outside the while loop
MpuRead ==
    /\ pc["mpu"] = "read"
    /\ appends["mpu"] < MaxAppends
    /\ \/ /\ \E s \in MpuReadings : sample' = s
          /\ \E t \in Times : timestamp' = [timestamp EXCEPT !["mpu"] = t]
          /\ pc' = [pc EXCEPT !["mpu"] = "backup"]
          /\ UNCHANGED err
       \/ /\ pc' = [pc EXCEPT !["mpu"] = "stopped"]
          /\ err' = [err EXCEPT !["mpu"] = "sensor_fault"]
          /\ UNCHANGED <<sample, timestamp>>
    /\ UNCHANGED <<reading, log, bak, appends, chart, chartBak, liveVars, restarts, misses, supVars, readerVars,
                   busVars>>

\* lines 119-120: the exists test and copyfile's open of the backup
MpuBackupOpen ==
    /\ pc["mpu"] = "backup"
    /\ \/ /\ log["mpu"].exists
          /\ bak' = [bak EXCEPT !["mpu"] = OpenW(@)]
          /\ pc' = [pc EXCEPT !["mpu"] = "copy"]
          /\ UNCHANGED err
       \/ /\ log["mpu"].exists
          /\ pc' = [pc EXCEPT !["mpu"] = "stopped"]
          /\ err' = [err EXCEPT !["mpu"] = "backup_fault"]
          /\ UNCHANGED bak
       \/ /\ ~log["mpu"].exists
          /\ pc' = [pc EXCEPT !["mpu"] = "append"]
          /\ UNCHANGED <<err, bak>>
    /\ UNCHANGED <<reading, sample, timestamp, log, appends, chart, chartBak, liveVars, restarts, misses, supVars, readerVars,
                   busVars>>

\* line 120: the copy itself
MpuBackupCopy ==
    /\ pc["mpu"] = "copy"
    /\ IF CopyDone(log["mpu"], bak["mpu"])
       THEN /\ pc' = [pc EXCEPT !["mpu"] = "append"]
            /\ UNCHANGED bak
       ELSE /\ bak' = [bak EXCEPT !["mpu"] = CopyChunk(log["mpu"], @)]
            /\ UNCHANGED pc
    /\ UNCHANGED <<err, reading, sample, timestamp, log, appends, chart, chartBak, liveVars, restarts, misses, supVars, readerVars,
                   busVars>>

\* line 123
MpuAppendOpen ==
    /\ pc["mpu"] = "append"
    /\ \/ /\ log' = [log EXCEPT !["mpu"] = OpenA(@)]
          /\ pc' = [pc EXCEPT !["mpu"] = "write"]
          /\ UNCHANGED err
       \/ /\ pc' = [pc EXCEPT !["mpu"] = "stopped"]
          /\ err' = [err EXCEPT !["mpu"] = "append_fault"]
          /\ UNCHANGED log
    /\ UNCHANGED <<reading, sample, timestamp, bak, appends, chart, chartBak, liveVars, restarts, misses, supVars, readerVars,
                   busVars>>

\* line 124
MpuLine(t, s) == Record(<<TimeText(FmtFull, t)>> \o s)

MpuAppendWrite ==
    /\ pc["mpu"] = "write"
    /\ log' = [log EXCEPT !["mpu"] = WriteLine(@, MpuLine(timestamp["mpu"], sample))]
    /\ appends' = [appends EXCEPT !["mpu"] = @ + 1]
    /\ pc' = [pc EXCEPT !["mpu"] = "sleep"]
    /\ UNCHANGED <<err, reading, sample, timestamp, bak, chart, chartBak, liveVars, restarts, misses, supVars, readerVars,
                   busVars>>

\* line 129
MpuSleep ==
    /\ pc["mpu"] = "sleep"
    /\ pc' = [pc EXCEPT !["mpu"] = "read"]
    /\ UNCHANGED <<err, workerVars, liveVars, restarts, misses, supVars, readerVars, busVars>>

MpuStep ==
    \/ MpuMain \/ MpuHeader \/ MpuRead \/ MpuBackupOpen \/ MpuBackupCopy
    \/ MpuAppendOpen \/ MpuAppendWrite \/ MpuSleep

\* ------------------------------------ generate_chart: scan and smoothing
\* lines 27 and 29 of src/src/dht_logger.py; the program has 120 and 5,
\* the model keeps the window small
MAX_CHART_POINTS == 2
MOVING_AVG_POINTS == 2
\* the longest log read, header not counted
MaxLines == 4

\* a field whose text float() rejects, and numpy's nan
Garbled == -3
NaN == -4
\* float(text): the number the text names, ValueError otherwise
ParseFloat(x) == IF x = Garbled THEN ParseError ELSE x

\* the lines a log can hold at position i: a record as the logger writes
\* it, a record that lacks its last field, a record whose first value is
\* no number
LineKinds == {"good", "short", "garbled"}
GoodFields(w, i) ==
    CASE w = "dhtOld" -> <<2000 + 10 * i * i, 4000 + 10 * i * i>>
      [] w = "mpu" -> <<i, 2 * i, 3 * i, 4 * i, 5 * i, 6 * i>>
      [] w = "sound" -> <<i, 1>>
InputLine(w, k, i) ==
    LET whole == <<TimeText(FmtFull, i)>> \o GoodFields(w, i) IN
    CASE k = "good" -> Record(whole)
      [] k = "short" -> Record(SubSeq(whole, 1, Len(whole) - 1))
      [] k = "garbled" -> Record([whole EXCEPT ![2] = Garbled])
KindSeqs == UNION {[1..n -> LineKinds] : n \in 0..MaxLines}
Body(w, ks) == [i \in 1..Len(ks) |-> InputLine(w, ks[i], i)]
\* the logs read: with or without the header line
Logs(w) == {Body(w, ks) : ks \in KindSeqs} \cup {<<Header>> \o Body(w, ks) : ks \in KindSeqs}

RECURSIVE SumSeq(_)
SumSeq(s) == IF s = <<>> THEN 0 ELSE Head(s) + SumSeq(Tail(s))
Last(s) == s[Len(s)]

\* deque(f, n): the last n lines of the file
LastN(s, n) == IF Len(s) <= n THEN s ELSE SubSeq(s, Len(s) - n + 1, Len(s))
\* lines 104-107: the last MAX_CHART_POINTS + 1 lines, less the first of
\* them when it is the header
Window(ls) ==
    LET last_lines == LastN(ls, MAX_CHART_POINTS + 1) IN
    IF last_lines # <<>> /\ last_lines[1].kind = "H" THEN Tail(last_lines) ELSE last_lines

\* lines 111-114, in the order of the code: the split into three fields and
\* strptime succeed and the date is appended (112); float(temp_str)
\* succeeds and the temperature is appended (113); float(hum_str) succeeds
\* and the humidity is appended (114). The header's fields are names:
\* strptime rejects the first
DateOk(l) == l.kind = "R" /\ Len(l.f) = 3 /\ ParseTime(FmtFull, l.f[1]) # ParseError
TempOk(l) == DateOk(l) /\ ParseFloat(l.f[2]) # ParseError
HumOk(l) == TempOk(l) /\ ParseFloat(l.f[3]) # ParseError
ScanDates(ls) ==
    LET ok == SelectSeq(Window(ls), DateOk) IN
    [i \in 1..Len(ok) |-> ParseTime(FmtFull, ok[i].f[1])]
ScanTemps(ls) ==
    LET ok == SelectSeq(Window(ls), TempOk) IN [i \in 1..Len(ok) |-> ParseFloat(ok[i].f[2])]
ScanHums(ls) ==
    LET ok == SelectSeq(Window(ls), HumOk) IN [i \in 1..Len(ok) |-> ParseFloat(ok[i].f[3])]

\* np.convolve(xs, np.ones(w)/w, mode='valid'), each value times w: the
\* sums of w consecutive values; lines 171 and 176: nothing below w points
MovingAvg(xs, w) ==
    IF Len(xs) >= w
    THEN [i \in 1..(Len(xs) - w + 1) |-> SumSeq(SubSeq(xs, i, i + w - 1))]
    ELSE <<>>

\* generate_chart, lines 98-122: the dates read from the window of the log
ChartRows(file) == ScanDates(file.lines)

\* -------------------------------- bench DHT logger with backup (dhtOld)
\* line 37: not os.path.exists(DATA_FILE)
OldLogMissing == ~log["dhtOld"].exists

\* the return of line 44 left out: after a failed creation the script goes
\* on to main_loop
OldMainNoReturn ==
    /\ pc["dhtOld"] = "main"
    /\ \/ /\ ~OldLogMissing
          /\ pc' = [pc EXCEPT !["dhtOld"] = "read"]
          /\ UNCHANGED <<err, log>>
       \/ /\ OldLogMissing
          /\ log' = [log EXCEPT !["dhtOld"] = OpenW(@)]
          /\ pc' = [pc EXCEPT !["dhtOld"] = "header"]
          /\ UNCHANGED err
       \/ /\ OldLogMissing
          /\ pc' = [pc EXCEPT !["dhtOld"] = "read"]
          /\ err' = [err EXCEPT !["dhtOld"] = "init_fault"]
          /\ UNCHANGED log
    /\ UNCHANGED <<reading, sample, timestamp, bak, appends, chart, chartBak, liveVars, restarts, misses, supVars, readerVars,
                   busVars>>

\* main(), lines 37-44
OldMain ==
    /\ pc["dhtOld"] = "main"
    /\ \/ /\ ~OldLogMissing
          /\ pc' = [pc EXCEPT !["dhtOld"] = "read"]
          /\ UNCHANGED <<err, log>>
       \/ /\ OldLogMissing
          /\ log' = [log EXCEPT !["dhtOld"] = OpenW(@)]
          /\ pc' = [pc EXCEPT !["dhtOld"] = "header"]
          /\ UNCHANGED err
       \/ /\ OldLogMissing
          /\ pc' = [pc EXCEPT !["dhtOld"] = "stopped"]
          /\ err' = [err EXCEPT !["dhtOld"] = "init_fault"]
          /\ UNCHANGED log
    /\ UNCHANGED <<reading, sample, timestamp, bak, appends, chart, chartBak, liveVars, restarts, misses, supVars, readerVars,
                   busVars>>

\* line 41
OldHeader ==
    /\ pc["dhtOld"] = "header"
    /\ log' = [log EXCEPT !["dhtOld"] = WriteLine(@, Header)]
    /\ pc' = [pc EXCEPT !["dhtOld"] = "read"]
    /\ UNCHANGED <<err, reading, sample, timestamp, bak, appends, chart, chartBak, liveVars, restarts, misses, supVars, readerVars,
                   busVars>>

\* strict comparisons where the envelope is closed
OldValidStrict(r) == r.hum # NoVal /\ r.temp # NoVal /\ 2000 < r.hum /\ r.hum < 9000

\* lines 58-60: the null test and the envelope test
OldValid(r) == r.hum # NoVal /\ r.temp # NoVal /\ 2000 <= r.hum /\ r.hum <= 9000

\* line 56
OldRead ==
    /\ pc["dhtOld"] = "read"
    /\ appends["dhtOld"] < MaxAppends
    /\ \E r \in DhtReadings : reading' = [reading EXCEPT !["dhtOld"] = r]
    /\ pc' = [pc EXCEPT !["dhtOld"] = "check"]
    /\ UNCHANGED <<err, sample, timestamp, log, bak, appends, chart, chartBak, liveVars, restarts, misses, supVars, readerVars,
                   busVars>>

\* lines 58-61 and 76-79
OldCheck ==
    /\ pc["dhtOld"] = "check"
    /\ IF OldValid(reading["dhtOld"])
       THEN /\ \E t \in Times : timestamp' = [timestamp EXCEPT !["dhtOld"] = t]
            /\ pc' = [pc EXCEPT !["dhtOld"] = "backup"]
       ELSE /\ pc' = [pc EXCEPT !["dhtOld"] = "sleep"]
            /\ UNCHANGED timestamp
    /\ UNCHANGED <<err, reading, sample, log, bak, appends, chart, chartBak, liveVars, restarts, misses, supVars, readerVars,
                   busVars>>

\* lines 64-65: the exists test and copyfile's open of the backup; an
\* OSError is caught nowhere (main_loop catches KeyboardInterrupt only)
OldBackupOpen ==
    /\ pc["dhtOld"] = "backup"
    /\ \/ /\ log["dhtOld"].exists
          /\ bak' = [bak EXCEPT !["dhtOld"] = OpenW(@)]
          /\ pc' = [pc EXCEPT !["dhtOld"] = "copy"]
          /\ UNCHANGED err
       \/ /\ log["dhtOld"].exists
          /\ pc' = [pc EXCEPT !["dhtOld"] = "stopped"]
          /\ err' = [err EXCEPT !["dhtOld"] = "backup_fault"]
          /\ UNCHANGED bak
       \/ /\ ~log["dhtOld"].exists
          /\ pc' = [pc EXCEPT !["dhtOld"] = "append"]
          /\ UNCHANGED <<err, bak>>
    /\ UNCHANGED <<reading, sample, timestamp, log, appends, chart, chartBak, liveVars, restarts, misses, supVars, readerVars,
                   busVars>>

\* line 65: the copy itself
OldBackupCopy ==
    /\ pc["dhtOld"] = "copy"
    /\ IF CopyDone(log["dhtOld"], bak["dhtOld"])
       THEN /\ pc' = [pc EXCEPT !["dhtOld"] = "append"]
            /\ UNCHANGED bak
       ELSE /\ bak' = [bak EXCEPT !["dhtOld"] = CopyChunk(log["dhtOld"], @)]
            /\ UNCHANGED pc
    /\ UNCHANGED <<err, reading, sample, timestamp, log, appends, chart, chartBak, liveVars, restarts, misses, supVars, readerVars,
                   busVars>>

\* line 68
OldAppendOpen ==
    /\ pc["dhtOld"] = "append"
    /\ \/ /\ log' = [log EXCEPT !["dhtOld"] = OpenA(@)]
          /\ pc' = [pc EXCEPT !["dhtOld"] = "write"]
          /\ UNCHANGED err
       \/ /\ pc' = [pc EXCEPT !["dhtOld"] = "stopped"]
          /\ err' = [err EXCEPT !["dhtOld"] = "append_fault"]
          /\ UNCHANGED log
    /\ UNCHANGED <<reading, sample, timestamp, bak, appends, chart, chartBak, liveVars, restarts, misses, supVars, readerVars,
                   busVars>>

\* line 69: the values are written as they were read, unrounded
OldLine(t, r) == Record(<<TimeText(FmtFull, t), r.temp, r.hum>>)

OldAppendWrite ==
    /\ pc["dhtOld"] = "write"
    /\ log' = [log EXCEPT !["dhtOld"] = WriteLine(@, OldLine(timestamp["dhtOld"], reading["dhtOld"]))]
    /\ appends' = [appends EXCEPT !["dhtOld"] = @ + 1]
    /\ pc' = [pc EXCEPT !["dhtOld"] = "chart"]
    /\ UNCHANGED <<err, reading, sample, timestamp, bak, chart, chartBak, liveVars, restarts, misses, supVars, readerVars,
                   busVars>>


\* line 75, generate_chart lines 98-122 and 201-203: nothing to plot returns
\* at once; otherwise the existing chart is renamed to the backup path, and
\* the chart path is vacant until savefig writes the new chart
OldChartRename ==
    /\ pc["dhtOld"] = "chart"
    /\ IF ~log["dhtOld"].exists \/ ChartRows(log["dhtOld"]) = <<>>
       THEN /\ pc' = [pc EXCEPT !["dhtOld"] = "sleep"]
            /\ UNCHANGED <<chart, chartBak>>
       ELSE /\ pc' = [pc EXCEPT !["dhtOld"] = "savefig"]
            /\ IF chart # 0
               THEN chartBak' = chart /\ chart' = 0
               ELSE UNCHANGED <<chart, chartBak>>
    /\ UNCHANGED <<err, reading, sample, timestamp, log, bak, appends, liveVars, restarts, misses, supVars, readerVars,
                   busVars>>

\* lines 205-206: the chart drawn from the rows read; an error of savefig
\* is caught nowhere and ends the script with the chart path vacant
OldChartSave ==
    /\ pc["dhtOld"] = "savefig"
    /\ \/ /\ chart' = Len(ChartRows(log["dhtOld"]))
          /\ pc' = [pc EXCEPT !["dhtOld"] = "sleep"]
          /\ UNCHANGED err
       \/ /\ pc' = [pc EXCEPT !["dhtOld"] = "stopped"]
          /\ err' = [err EXCEPT !["dhtOld"] = "chart_fault"]
          /\ UNCHANGED chart
    /\ UNCHANGED <<reading, sample, timestamp, log, bak, appends, chartBak, liveVars, restarts, misses, supVars, readerVars,
                   busVars>>

\* line 81
OldSleep ==
    /\ pc["dhtOld"] = "sleep"
    /\ pc' = [pc EXCEPT !["dhtOld"] = "read"]
    /\ UNCHANGED <<err, workerVars, liveVars, restarts, misses, supVars, readerVars, busVars>>

OldStep ==
    \/ OldMain \/ OldHeader \/ OldRead \/ OldCheck \/ OldBackupOpen \/ OldBackupCopy
    \/ OldAppendOpen \/ OldAppendWrite \/ OldChartRename \/ OldChartSave \/ OldSleep

\* ------------------------------------------------- sound logger (sound)
\* line 36: not os.path.exists(DATA_FILE)
SoundLogMissing == ~log["sound"].exists

\* log_sound_data, lines 36-43; when the log cannot be created the function
\* returns False and the script sleeps before it calls the function again
SoundMain ==
    /\ pc["sound"] = "main"
    /\ \/ /\ ~SoundLogMissing
          /\ pc' = [pc EXCEPT !["sound"] = "backup"]
          /\ UNCHANGED <<err, log>>
       \/ /\ SoundLogMissing
          /\ log' = [log EXCEPT !["sound"] = OpenW(@)]
          /\ pc' = [pc EXCEPT !["sound"] = "header"]
          /\ UNCHANGED err
       \/ /\ SoundLogMissing
          /\ pc' = [pc EXCEPT !["sound"] = "sleep"]
          /\ UNCHANGED <<err, log>>
    /\ UNCHANGED <<reading, sample, timestamp, bak, appends, chart, chartBak, liveVars, restarts, misses, supVars, readerVars,
                   busVars>>

\* line 40
SoundHeader ==
    /\ pc["sound"] = "header"
    /\ log' = [log EXCEPT !["sound"] = WriteLine(@, Header)]
    /\ pc' = [pc EXCEPT !["sound"] = "backup"]
    /\ UNCHANGED <<err, reading, sample, timestamp, bak, appends, chart, chartBak, liveVars, restarts, misses, supVars, readerVars,
                   busVars>>

\* lines 46-47: one backup per call of log_sound_data
SoundBackupOpen ==
    /\ pc["sound"] = "backup"
    /\ \/ /\ log["sound"].exists
          /\ bak' = [bak EXCEPT !["sound"] = OpenW(@)]
          /\ pc' = [pc EXCEPT !["sound"] = "copy"]
          /\ UNCHANGED err
       \/ /\ log["sound"].exists
          /\ pc' = [pc EXCEPT !["sound"] = "stopped"]
          /\ err' = [err EXCEPT !["sound"] = "backup_fault"]
          /\ UNCHANGED bak
       \/ /\ ~log["sound"].exists
          /\ pc' = [pc EXCEPT !["sound"] = "setup"]
          /\ UNCHANGED <<err, bak>>
    /\ UNCHANGED <<reading, sample, timestamp, log, appends, chart, chartBak, liveVars, restarts, misses, supVars, readerVars,
                   busVars>>

\* line 47: the copy itself
SoundBackupCopy ==
    /\ pc["sound"] = "copy"
    /\ IF CopyDone(log["sound"], bak["sound"])
       THEN /\ pc' = [pc EXCEPT !["sound"] = "setup"]
            /\ UNCHANGED bak
       ELSE /\ bak' = [bak EXCEPT !["sound"] = CopyChunk(log["sound"], @)]
            /\ UNCHANGED pc
    /\ UNCHANGED <<err, reading, sample, timestamp, log, appends, chart, chartBak, liveVars, restarts, misses, supVars, readerVars,
                   busVars>>

\* line 50: the module imports gpiozero (line 3) and then names zerogpio,
\* which nothing defines: NameError, caught nowhere, ends the script before
\* the first sample of lines 57-75 is taken
SoundSetup ==
    /\ pc["sound"] = "setup"
    /\ pc' = [pc EXCEPT !["sound"] = "stopped"]
    /\ err' = [err EXCEPT !["sound"] = "name_error"]
    /\ UNCHANGED <<workerVars, liveVars, restarts, misses, supVars, readerVars, busVars>>

\* lines 120-123: the script's own loop
SoundSleep ==
    /\ pc["sound"] = "sleep"
    /\ pc' = [pc EXCEPT !["sound"] = "main"]
    /\ UNCHANGED <<err, workerVars, liveVars, restarts, misses, supVars, readerVars, busVars>>

SoundStep ==
    \/ SoundMain \/ SoundHeader \/ SoundBackupOpen \/ SoundBackupCopy \/ SoundSetup
    \/ SoundSleep

\* ------------------------------------------------------ stop and restart
LoopPcs == {"read", "check", "backup", "copy", "append", "write", "chart", "savefig",
            "live_read", "live_update", "live_open", "live_dump", "sleep"}
ActivePcs == LoopPcs \cup {"main", "header", "setup"}

\* the process is ended from outside at any point of its script (SIGTERM
\* from the supervisor's terminate(), SIGKILL, Ctrl+C, power loss): what it
\* had not yet written stays unwritten
Kill(w) ==
    /\ pc[w] \in ActivePcs
    /\ pc' = [pc EXCEPT ![w] = "stopped"]
    /\ err' = [err EXCEPT ![w] = "killed"]
    /\ UNCHANGED <<workerVars, liveVars, restarts, misses, supVars, readerVars, busVars>>

\* the script is started again: a new process, at the top of main()
Restart(w) ==
    /\ pc[w] = "stopped"
    /\ restarts < MaxRestarts
    /\ restarts' = restarts + 1
    /\ misses' = IF w = "dht" THEN 0 ELSE misses
    /\ pc' = [pc EXCEPT ![w] = "main"]
    /\ err' = [err EXCEPT ![w] = "none"]
    /\ reading' = [x \in DhtWorkers |-> IF x = w THEN NoReading ELSE reading[x]]
    /\ sample' = IF w = "mpu" THEN NoSample ELSE sample
    /\ timestamp' = [timestamp EXCEPT ![w] = 0]
    /\ UNCHANGED <<log, bak, appends, chart, chartBak, liveVars, supVars, readerVars, busVars>>

\* ------------------------------------------------- supervisor (main.py)
\* lines 21-33: the units in launch order; the fourth is the web server
PROCESSES == <<"dht", "mpu", "sound", "web">>
Units == {PROCESSES[i] : i \in 1..Len(PROCESSES)}
\* the loggers the supervisor starts (PROCESSES): the flight DHT logger, the
\* MPU-6050 logger and the sound logger
SupervisedWorkers == {"dht", "mpu", "sound"}

\* where a launched unit begins: a logger at the top of its main(), the web
\* server serving
StartPc(u) == IF u = "web" THEN "serving" ELSE "main"

\* a poll that finds every child running
AliveAlways(u) == TRUE
\* proc.poll() is None: the child process has not ended
Alive(u) == pc[u] \notin {"off", "stopped"}

\* a message of the supervisor: its kind and the unit it names
Msg(kind, u) == <<kind, u>>

\* where the for loop of lines 47-69 goes after unit i
AfterUnit(i) == IF i >= Len(PROCESSES) THEN "status" ELSE "launch"

\* a failed launch ends the loop, whatever the failure
AfterFailureBreak(i) == "status"
\* lines 68-69: except Exception prints and the loop takes the next unit
AfterFailure(i) == AfterUnit(i)

\* the interpreter is missing and the loop goes on all the same
AfterNotFoundContinue(i) == AfterUnit(i)
\* lines 65-67: except FileNotFoundError prints and breaks
AfterNotFound(i) == "status"

\* lines 47-69, one unit: Popen starts the child, or raises
\* FileNotFoundError (no python3), or raises another exception
SupLaunch ==
    /\ supPc = "launch"
    /\ idx <= Len(PROCESSES)
    /\ LET u == PROCESSES[idx] IN
          \/ /\ pc' = [pc EXCEPT ![u] = StartPc(u)]
             /\ running_processes' = Append(running_processes, u)
             /\ outcome' = [outcome EXCEPT ![u] = "ok"]
             /\ printed' = printed \cup {Msg("SUCCESS", u)}
             /\ supPc' = "settle"
             /\ UNCHANGED idx
          \/ /\ outcome' = [outcome EXCEPT ![u] = "not_found"]
             /\ printed' = printed \cup {Msg("ERROR", "")}
             /\ supPc' = AfterNotFound(idx)
             /\ idx' = idx + 1
             /\ UNCHANGED <<pc, running_processes>>
          \/ /\ outcome' = [outcome EXCEPT ![u] = "error"]
             /\ printed' = printed \cup {Msg("CRITICAL FAILURE", u)}
             /\ supPc' = AfterFailure(idx)
             /\ idx' = idx + 1
             /\ UNCHANGED <<pc, running_processes>>
    /\ UNCHANGED <<err, workerVars, liveVars, restarts, misses, termSent, DEVNULL, alerts, readerVars,
                   busVars>>

\* line 63: the delay after a successful launch
SupSettle ==
    /\ supPc = "settle"
    /\ supPc' = AfterUnit(idx)
    /\ idx' = idx + 1
    /\ UNCHANGED <<pc, err, workerVars, liveVars, restarts, misses, running_processes, outcome,
                   printed, termSent, DEVNULL, alerts, readerVars, busVars>>

\* lines 71-82: the status report; with at least one handle the supervisor
\* goes on to monitor_processes, otherwise launch_processes returns
SupStatus ==
    /\ supPc = "status"
    /\ IF running_processes # <<>>
       THEN /\ printed' = printed \cup {Msg("All processes launched successfully.", "")}
            /\ supPc' = "poll"
            /\ idx' = 1
       ELSE /\ printed' = printed \cup {Msg("No processes were launched. Mission aborted.", "")}
            /\ supPc' = "exited"
            /\ UNCHANGED idx
    /\ UNCHANGED <<pc, err, workerVars, liveVars, restarts, misses, running_processes, outcome, termSent, DEVNULL, alerts, readerVars,
                   busVars>>

\* a poll that starts a unit found dead again
PolledRelaunch(u) == [pc EXCEPT ![u] = IF Alive(u) THEN @ ELSE StartPc(u)]
\* lines 90-92: a poll reads the child's state and leaves the child as it is
Polled(u) == pc

\* a dead handle is reported the first time it is found dead only
AlertedOnce(u, pass) == IF Msg("ALERT", u) \in printed THEN pass ELSE pass \cup {u}
\* line 91: the ALERT line for the unit is printed in this pass
Alerted(u, pass) == pass \cup {u}

\* lines 89-94: the poll of one handle; a dead one is reported; after the
\* last handle the loop sleeps
SupPoll ==
    /\ supPc = "poll"
    /\ idx <= Len(running_processes)
    /\ LET u == running_processes[idx] IN
          /\ printed' = IF Alive(u) THEN printed ELSE printed \cup {Msg("ALERT", u)}
          /\ alerts' = IF Alive(u) THEN alerts ELSE Alerted(u, alerts)
          /\ pc' = Polled(u)
    /\ IF idx = Len(running_processes)
       THEN supPc' = "sleep" /\ idx' = 1
       ELSE supPc' = "poll" /\ idx' = idx + 1
    /\ UNCHANGED <<err, workerVars, liveVars, restarts, misses, running_processes, outcome,
                   termSent, DEVNULL, readerVars, busVars>>

\* line 94, and the next pass of the while loop begins
SupSleep ==
    /\ supPc = "sleep"
    /\ supPc' = "poll"
    /\ alerts' = {}
    /\ UNCHANGED <<pc, err, workerVars, liveVars, restarts, misses, idx, running_processes, outcome,
                   printed, termSent, DEVNULL, readerVars, busVars>>

\* Ctrl+C. Inside monitor_processes the except clause of line 96 begins the
\* termination sequence; inside launch_processes nothing catches
\* KeyboardInterrupt (except Exception does not) and the supervisor ends
\* with the launched children left running
SupInterrupt ==
    /\ \/ /\ supPc \in {"poll", "sleep"}
          /\ supPc' = "terminate"
          /\ idx' = 1
          /\ printed' = printed \cup {Msg("TERMINATION SEQUENCE INITIATED", "")}
       \/ /\ supPc \in {"launch", "settle", "status"}
          /\ supPc' = "interrupted"
          /\ UNCHANGED <<idx, printed>>
    /\ UNCHANGED <<pc, err, workerVars, liveVars, restarts, misses, running_processes, outcome, termSent, DEVNULL, alerts, readerVars,
                   busVars>>

\* lines 100-106, one handle: a handle still alive is sent SIGTERM, or
\* terminate() raises and the error is printed; a dead handle is passed over
SupTerminate ==
    /\ supPc = "terminate"
    /\ idx <= Len(running_processes)
    /\ LET u == running_processes[idx] IN
          \/ /\ Alive(u)
             /\ termSent' = Append(termSent, u)
             /\ printed' = printed \cup {Msg("STOPPED", u)}
          \/ /\ Alive(u)
             /\ printed' = printed \cup {Msg("Could not terminate", u)}
             /\ UNCHANGED termSent
          \/ /\ ~Alive(u)
             /\ UNCHANGED <<termSent, printed>>
    /\ IF idx = Len(running_processes)
       THEN supPc' = "close" /\ idx' = 1
       ELSE supPc' = "terminate" /\ idx' = idx + 1
    /\ UNCHANGED <<pc, err, workerVars, liveVars, restarts, misses, running_processes, outcome,
                   DEVNULL, alerts, readerVars, busVars>>

\* lines 108-109: the closing message, then DEVNULL.close(); DEVNULL is a
\* local name of launch_processes (line 45), unknown in monitor_processes:
\* NameError, which nothing catches
SupClose ==
    /\ supPc = "close"
    /\ printed' = printed \cup {Msg("Mission components safely shut down.", "")}
    /\ supPc' = "name_error"
    /\ UNCHANGED <<pc, err, workerVars, liveVars, restarts, misses, idx, running_processes, outcome,
                   termSent, DEVNULL, alerts, readerVars, busVars>>

SupStep ==
    \/ SupLaunch \/ SupSettle \/ SupStatus \/ SupPoll \/ SupSleep \/ SupInterrupt
    \/ SupTerminate \/ SupClose

\* the web server ends (an error of its own, a signal)
WebExit ==
    /\ pc["web"] = "serving"
    /\ pc' = [pc EXCEPT !["web"] = "stopped"]
    /\ err' = [err EXCEPT !["web"] = "killed"]
    /\ UNCHANGED <<workerVars, liveVars, restarts, misses, supVars, readerVars, busVars>>

\* ------------------------------------------------------- chart scripts
\* The scripts that read a log and draw a chart from it: generate_chart of
\* the bench DHT logger (src/src/dht_logger.py), generate_mpu_chart
\* (plotter/mpu6050_plotter.py) and generate_sound_chart
\* (plotter/sound_plotter.py). A script is named by the log it reads.
Readers == {"dhtOld", "mpu", "sound"}
\* two runs of the script, one after the other, each in a process of its own
Runs == 1..2

\* the run has ended
EndPcs == {"done", "returned", "exit2", "value_error"}
Ended(k) == rpc[k] \in EndPcs

\* the script is started: a new process; the bench logger's module notes
\* the time (line 32)
ReaderStart(k) ==
    /\ reader \in Readers
    /\ rpc[k] = "off"
    /\ k > 1 => Ended(k - 1)
    /\ rpc' = [rpc EXCEPT ![k] = "scan"]
    /\ IF reader = "dhtOld"
       THEN \E t \in Times : SCRIPT_START_TIME' = [SCRIPT_START_TIME EXCEPT ![k] = t]
       ELSE UNCHANGED SCRIPT_START_TIME
    /\ UNCHANGED <<pc, err, workerVars, liveVars, restarts, misses, supVars, reader, data, dates,
                   temps, hums, values, temp_ma, hum_ma, title_str, busVars>>

\* generate_chart, lines 98-122: the scan of the window; with no date read
\* the function returns
GenScan(k) ==
    /\ reader = "dhtOld"
    /\ rpc[k] = "scan"
    /\ dates' = [dates EXCEPT ![k] = ScanDates(data)]
    /\ temps' = [temps EXCEPT ![k] = ScanTemps(data)]
    /\ hums' = [hums EXCEPT ![k] = ScanHums(data)]
    /\ rpc' = [rpc EXCEPT ![k] = IF ScanDates(data) = <<>> THEN "returned" ELSE "title"]
    /\ UNCHANGED <<pc, err, workerVars, liveVars, restarts, misses, supVars, reader, data,
                   SCRIPT_START_TIME, values, temp_ma, hum_ma, title_str, busVars>>

\* timedelta.seconds: the seconds of the difference within the day
Seconds(from, to) == (to - from) % DayLen
\* lines 129-143: the title names the start of the process, the last date
\* read and the time between the two
GenTitle(k) ==
    /\ reader = "dhtOld"
    /\ rpc[k] = "title"
    /\ LET end_time == Last(dates[k]) IN
          title_str' = [title_str EXCEPT ![k] =
                           [start |-> SCRIPT_START_TIME[k], end |-> end_time,
                            duration |-> Seconds(SCRIPT_START_TIME[k], end_time)]]
    /\ rpc' = [rpc EXCEPT ![k] = "plot"]
    /\ UNCHANGED <<pc, err, workerVars, liveVars, restarts, misses, supVars, reader, data,
                   SCRIPT_START_TIME, dates, temps, hums, values, temp_ma, hum_ma, busVars>>

\* lines 153 and 164: plot(dates, temps) and plot(dates, hums) raise
\* ValueError when the two lists differ in length; nothing catches it
GenPlot(k) ==
    /\ reader = "dhtOld"
    /\ rpc[k] = "plot"
    /\ rpc' = [rpc EXCEPT ![k] =
                  IF Len(dates[k]) = Len(temps[k]) /\ Len(dates[k]) = Len(hums[k])
                  THEN "smooth" ELSE "value_error"]
    /\ UNCHANGED <<pc, err, workerVars, liveVars, restarts, misses, supVars, reader, data,
                   SCRIPT_START_TIME, dates, temps, hums, values, temp_ma, hum_ma, title_str,
                   busVars>>

\* lines 170-178: the moving averages of temperature and humidity
GenSmooth(k) ==
    /\ reader = "dhtOld"
    /\ rpc[k] = "smooth"
    /\ temp_ma' = [temp_ma EXCEPT ![k] = MovingAvg(temps[k], MOVING_AVG_POINTS)]
    /\ hum_ma' = [hum_ma EXCEPT ![k] = MovingAvg(hums[k], MOVING_AVG_POINTS)]
    /\ rpc' = [rpc EXCEPT ![k] = "rename"]
    /\ UNCHANGED <<pc, err, workerVars, liveVars, restarts, misses, supVars, reader, data,
                   SCRIPT_START_TIME, dates, temps, hums, values, title_str, busVars>>

\* lines 201-203: an existing chart is renamed to the backup path
GenRename(k) ==
    /\ reader = "dhtOld"
    /\ rpc[k] = "rename"
    /\ IF chart # 0
       THEN chartBak' = chart /\ chart' = 0
       ELSE UNCHANGED <<chart, chartBak>>
    /\ rpc' = [rpc EXCEPT ![k] = "savefig"]
    /\ UNCHANGED <<pc, err, reading, sample, timestamp, log, bak, appends, liveVars, restarts, misses,
                   supVars, reader, data, SCRIPT_START_TIME, dates, temps, hums, values,
                   temp_ma, hum_ma, title_str, busVars>>

\* lines 205-206: savefig writes the chart of the dates read
GenSave(k) ==
    /\ reader = "dhtOld"
    /\ rpc[k] = "savefig"
    /\ chart' = Len(dates[k])
    /\ rpc' = [rpc EXCEPT ![k] = "done"]
    /\ UNCHANGED <<pc, err, reading, sample, timestamp, log, bak, appends, chartBak, liveVars,
                   restarts, misses, supVars, reader, data, SCRIPT_START_TIME, dates, temps, hums,
                   values, temp_ma, hum_ma, title_str, busVars>>

\* mpu6050_plotter.py lines 62-66: the first line must be a header of seven
\* names that begins with "timestamp"; a record's first field is a date
MpuHeaderOk(ls) == ls # <<>> /\ ls[1].kind = "H"
\* lines 88-94: a row is kept when it has seven parts and its first is a date
MpuRowOk(l) == l.kind = "R" /\ Len(l.f) >= 7 /\ ParseTime(FmtFull, l.f[1]) # ParseError
\* lines 96-103: the six values of a kept row; a text that is no number
\* becomes nan
MpuRow(l) == [i \in 1..6 |-> IF ParseFloat(l.f[i + 1]) = ParseError THEN NaN ELSE ParseFloat(l.f[i + 1])]

\* generate_mpu_chart, lines 45-107: the header check and the scan of the
\* rows; an empty file, a wrong header and no row at all end the script
\* with status 2
MpuPlotScan(k) ==
    /\ reader = "mpu"
    /\ rpc[k] = "scan"
    /\ IF ~MpuHeaderOk(data)
       THEN /\ rpc' = [rpc EXCEPT ![k] = "exit2"]
            /\ UNCHANGED <<dates, values>>
       ELSE LET rows == SelectSeq(Tail(data), MpuRowOk) IN
            /\ dates' = [dates EXCEPT ![k] = [i \in 1..Len(rows) |-> ParseTime(FmtFull, rows[i].f[1])]]
            /\ values' = [values EXCEPT ![k] = [i \in 1..Len(rows) |-> MpuRow(rows[i])]]
            /\ rpc' = [rpc EXCEPT ![k] = IF rows = <<>> THEN "exit2" ELSE "title"]
    /\ UNCHANGED <<pc, err, workerVars, liveVars, restarts, misses, supVars, reader, data,
                   SCRIPT_START_TIME, temps, hums, temp_ma, hum_ma, title_str, busVars>>

\* lines 112-130: start, end and duration are those of the dates read
MpuPlotTitle(k) ==
    /\ reader = "mpu"
    /\ rpc[k] = "title"
    /\ title_str' = [title_str EXCEPT ![k] =
                        [start |-> dates[k][1], end |-> Last(dates[k]),
                         duration |-> Last(dates[k]) - dates[k][1]]]
    /\ rpc' = [rpc EXCEPT ![k] = "rename"]
    /\ UNCHANGED <<pc, err, workerVars, liveVars, restarts, misses, supVars, reader, data,
                   SCRIPT_START_TIME, dates, temps, hums, values, temp_ma, hum_ma, busVars>>

\* lines 179-181: an existing chart is moved to the backup path
MpuPlotRename(k) ==
    /\ reader = "mpu"
    /\ rpc[k] = "rename"
    /\ IF chart # 0
       THEN chartBak' = chart /\ chart' = 0
       ELSE UNCHANGED <<chart, chartBak>>
    /\ rpc' = [rpc EXCEPT ![k] = "savefig"]
    /\ UNCHANGED <<pc, err, reading, sample, timestamp, log, bak, appends, liveVars, restarts, misses,
                   supVars, reader, data, SCRIPT_START_TIME, dates, temps, hums, values,
                   temp_ma, hum_ma, title_str, busVars>>

\* lines 182-188: savefig writes the chart, or fails and the script ends
\* with status 2
MpuPlotSave(k) ==
    /\ reader = "mpu"
    /\ rpc[k] = "savefig"
    /\ \/ /\ chart' = Len(dates[k])
          /\ rpc' = [rpc EXCEPT ![k] = "done"]
       \/ /\ rpc' = [rpc EXCEPT ![k] = "exit2"]
          /\ UNCHANGED chart
    /\ UNCHANGED <<pc, err, reading, sample, timestamp, log, bak, appends, chartBak, liveVars,
                   restarts, misses, supVars, reader, data, SCRIPT_START_TIME, dates, temps, hums,
                   values, temp_ma, hum_ma, title_str, busVars>>

\* sound_plotter.py line 20: every line with a comma gives float() of its
\* second field
SoundHasComma(l) == l.kind = "H" \/ Len(l.f) >= 2
SoundValue(l) == IF l.kind = "H" THEN ParseError ELSE ParseFloat(l.f[2])

\* generate_sound_chart, lines 10-20: an empty file ends the script with
\* status 2; the list comprehension of line 20 has no try around it, so one
\* field that is no number ends the script with ValueError
SoundPlotScan(k) ==
    /\ reader = "sound"
    /\ rpc[k] = "scan"
    /\ LET rows == SelectSeq(data, SoundHasComma) IN
          IF data = <<>>
          THEN /\ rpc' = [rpc EXCEPT ![k] = "exit2"]
               /\ UNCHANGED values
          ELSE IF \E i \in 1..Len(rows) : SoundValue(rows[i]) = ParseError
          THEN /\ rpc' = [rpc EXCEPT ![k] = "value_error"]
               /\ UNCHANGED values
          ELSE /\ values' = [values EXCEPT ![k] = [i \in 1..Len(rows) |-> SoundValue(rows[i])]]
               /\ rpc' = [rpc EXCEPT ![k] = "open"]
    /\ UNCHANGED <<pc, err, workerVars, liveVars, restarts, misses, supVars, reader, data,
                   SCRIPT_START_TIME, dates, temps, hums, temp_ma, hum_ma, title_str, busVars>>

\* line 29: savefig opens CHART_FILE for writing; the chart that was there
\* is gone and the new one is not yet written
SoundPlotOpen(k) ==
    /\ reader = "sound"
    /\ rpc[k] = "open"
    /\ chart' = 0
    /\ rpc' = [rpc EXCEPT ![k] = "savefig"]
    /\ UNCHANGED <<pc, err, reading, sample, timestamp, log, bak, appends, chartBak, liveVars,
                   restarts, misses, supVars, reader, data, SCRIPT_START_TIME, dates, temps, hums,
                   values, temp_ma, hum_ma, title_str, busVars>>

\* lines 29-31: the chart of the values read is written
SoundPlotSave(k) ==
    /\ reader = "sound"
    /\ rpc[k] = "savefig"
    /\ chart' = Len(values[k])
    /\ rpc' = [rpc EXCEPT ![k] = "done"]
    /\ UNCHANGED <<pc, err, reading, sample, timestamp, log, bak, appends, chartBak, liveVars,
                   restarts, misses, supVars, reader, data, SCRIPT_START_TIME, dates, temps, hums,
                   values, temp_ma, hum_ma, title_str, busVars>>

\* ------------------------------------ MPU-6050 register read (read_word_2c)
\* what bus.read_byte_data returns: one register, eight bits
Bytes == 0..255

\* the two bytes joined and returned as they are
read_word_2c_unsigned(h, l) == h * 256 + l
\* lines 48-54: value = (high << 8) + low, returned as it is below 0x8000
\* and as -((65535 - value) + 1) from 0x8000 on
read_word_2c(h, l) ==
    LET value == h * 256 + l IN
    IF value >= 32768 THEN -((65535 - value) + 1) ELSE value

\* lines 43-54, one call: without a bus 0 is returned and no register is
\* read (line 45); with a bus the two registers are read and combined
ReadWord2c ==
    /\ word' = IF bus = "none" THEN <<0>> ELSE <<read_word_2c(high, low)>>
    /\ UNCHANGED <<pc, err, workerVars, liveVars, restarts, misses, supVars, readerVars, bus,
                   high, low>>

\* the register read is not under study
NoBus == bus = "none" /\ high = 0 /\ low = 0 /\ word = <<>>

\* ------------------------------------------------------------------- specs
InitFiles ==
    /\ err = [p \in Procs |-> "none"]
    /\ reading = [w \in DhtWorkers |-> NoReading]
    /\ sample = NoSample
    /\ timestamp = [w \in Workers |-> 0]
    /\ log = [w \in Workers |-> NoFile]
    /\ bak = [w \in BackupWorkers |-> NoFile]
    /\ appends = [w \in Workers |-> 0]
    /\ chart = 0
    /\ chartBak = 0
    /\ liveFile = LiveAbsent
    /\ full_data = [p \in LiveWriters |-> EmptyDoc]
    /\ data_point = [p \in LiveWriters |-> EmptyDoc]
    /\ written = [p \in LiveWriters |-> EmptyDoc]
    /\ dumps = [p \in LiveWriters |-> 0]
    /\ updates = 0
    /\ restarts = 0
    /\ misses = 0
    /\ idx = 1
    /\ running_processes = <<>>
    /\ outcome = [u \in Units |-> "none"]
    /\ printed = {}
    /\ termSent = <<>>
    /\ alerts = {}

\* no run of a chart script has begun
RunsIdle ==
    /\ rpc = [k \in Runs |-> "off"]
    /\ SCRIPT_START_TIME = [k \in Runs |-> NoVal]
    /\ dates = [k \in Runs |-> <<>>]
    /\ temps = [k \in Runs |-> <<>>]
    /\ hums = [k \in Runs |-> <<>>]
    /\ values = [k \in Runs |-> <<>>]
    /\ temp_ma = [k \in Runs |-> <<>>]
    /\ hum_ma = [k \in Runs |-> <<>>]
    /\ title_str = [k \in Runs |-> [start |-> NoVal, end |-> NoVal, duration |-> NoVal]]
\* no chart script is under study
NoReader == reader = "none" /\ data = <<>> /\ RunsIdle

\* the flight DHT logger and a second logger share the live-state file
InitLive ==
    /\ InitFiles
    /\ NoBus
    /\ supPc = "off"
    /\ DEVNULL = "unopened"
    /\ NoReader
    /\ pc = [p \in Procs |-> CASE p = "dht" -> "main" [] p = "peer" -> "idle" [] OTHER -> "off"]

NextLive ==
    \/ DhtStep
    \/ PeerBegin
    \/ \E p \in LiveWriters : LiveRead(p)
    \/ \E p \in LiveWriters : LiveUpdate(p)
    \/ \E p \in LiveWriters : LiveOpen(p)
    \/ \E p \in LiveWriters : LiveDump(p)

SpecLive == InitLive /\ [][NextLive]_vars

\* one of the logger scripts is started on a fresh data directory; it can
\* be stopped at any point and started again. The scripts share no file
\* but the live-state file, which the flight DHT logger alone writes, so a
\* script's files change by that script's steps only
InitWorkers ==
    /\ InitFiles
    /\ NoBus
    /\ supPc = "off"
    /\ DEVNULL = "unopened"
    /\ NoReader
    /\ \E w \in Workers : pc = [p \in Procs |-> IF p = w THEN "main" ELSE "off"]

NextWorkers ==
    \/ DhtStep
    \/ LiveRead("dht") \/ LiveUpdate("dht") \/ LiveOpen("dht") \/ LiveDump("dht")
    \/ MpuStep
    \/ OldStep
    \/ SoundStep
    \/ \E w \in Workers : Kill(w)
    \/ \E w \in Workers : Restart(w)

SpecWorkers == InitWorkers /\ [][NextWorkers]_vars

\* main.py is run on a fresh data directory: no child is running yet. The
\* children are separate processes, which the supervisor knows by their
\* handles only; a child can end at any point, and the sound logger takes
\* the steps of its script
InitSupervisor ==
    /\ InitFiles
    /\ NoBus
    /\ supPc = "launch"
    /\ DEVNULL = "open"
    /\ NoReader
    /\ pc = [p \in Procs |-> "off"]

NextSupervisor ==
    \/ SupStep
    \/ SoundStep
    \/ \E w \in SupervisedWorkers : Kill(w)
    \/ WebExit

SpecSupervisor == InitSupervisor /\ [][NextSupervisor]_vars

\* the mission as long as the operator does not interrupt: launch and
\* monitoring, with the MPU-6050 logger taking the steps of its script next
\* to the supervisor
NextMission ==
    \/ SupLaunch \/ SupSettle \/ SupStatus \/ SupPoll \/ SupSleep
    \/ MpuStep
    \/ \E w \in SupervisedWorkers : Kill(w)
    \/ WebExit

SpecMission == InitSupervisor /\ [][NextMission]_vars

\* the supervisor is a running process: its next step is taken
SupRun == SupLaunch \/ SupSettle \/ SupStatus \/ SupPoll \/ SupSleep
SpecMissionFair == SpecMission /\ WF_vars(SupRun)

\* a chart script is run twice, one run after the other, on a log that
\* holds any mix of whole and malformed lines
InitReaders ==
    /\ InitFiles
    /\ NoBus
    /\ supPc = "off"
    /\ DEVNULL = "unopened"
    /\ pc = [p \in Procs |-> "off"]
    /\ reader \in Readers
    /\ data \in Logs(reader)
    /\ RunsIdle

NextReaders ==
    \/ \E k \in Runs : ReaderStart(k)
    \/ \E k \in Runs : GenScan(k)
    \/ \E k \in Runs : GenTitle(k)
    \/ \E k \in Runs : GenPlot(k)
    \/ \E k \in Runs : GenSmooth(k)
    \/ \E k \in Runs : GenRename(k)
    \/ \E k \in Runs : GenSave(k)
    \/ \E k \in Runs : MpuPlotScan(k)
    \/ \E k \in Runs : MpuPlotTitle(k)
    \/ \E k \in Runs : MpuPlotRename(k)
    \/ \E k \in Runs : MpuPlotSave(k)
    \/ \E k \in Runs : SoundPlotScan(k)
    \/ \E k \in Runs : SoundPlotOpen(k)
    \/ \E k \in Runs : SoundPlotSave(k)

SpecReaders == InitReaders /\ [][NextReaders]_vars

\* read_word_2c is called on a bus that was opened, or in simulation mode,
\* with any two bytes in the registers
InitWord ==
    /\ InitFiles
    /\ supPc = "off"
    /\ DEVNULL = "unopened"
    /\ NoReader
    /\ pc = [p \in Procs |-> "off"]
    /\ bus \in {"open", "none"}
    /\ high \in Bytes
    /\ low \in Bytes
    /\ word = <<>>

NextWord == ReadWord2c

SpecWord == InitWord /\ [][NextWord]_vars

\* ------------------------------------------------------------- properties
LivePcs == {"live_read", "live_update", "live_open", "live_dump"}
HasHeader(file) == file.lines # <<>> /\ file.lines[1] = Header
RecordsOf(file) == SelectSeq(file.lines, LAMBDA l : l.kind = "R")

\* a null reading, or a humidity outside [20, 90] percent
Rejected(r) == r.hum = NoVal \/ r.temp = NoVal \/ r.hum < 2000 \/ r.hum > 9000

\* C1: once both writers are outside write_live_data, the live-state file
\* holds, for each writer that completed an update, the values of that
\* writer's last completed update: no update is lost to the other writer.
C1_NoLostUpdate ==
    (\A p \in LiveWriters : pc[p] \notin LivePcs) =>
        \A p \in LiveWriters :
            written[p] # EmptyDoc =>
                /\ liveFile.state = "doc"
                /\ \A k \in FieldsOf(p) : liveFile.doc[k] = written[p][k]

\* C2: the live-state file is at every moment either absent or one complete
\* document; a reader never finds it empty or half written.
C2_NeverTorn == liveFile.state \in {"absent", "doc"}

\* C3: when a writer completes an update, every field of another writer
\* still holds the value that writer last wrote.
C3_ForeignFieldsKept ==
    [][\A p \in LiveWriters :
          (pc[p] = "live_dump" /\ pc'[p] # "live_dump") =>
              \A q \in LiveWriters \ {p} :
                  \A k \in FieldsOf(q) : liveFile'.doc[k] = written[q][k]]_vars

\* C4: for a worker that backs up before each append and whose log began
\* with the header alone, the log has N+1 lines after N completed appends,
\* and at the completion of an append the backup equals the log as it was
\* just before that append.
C4_LinesAndBackup ==
    /\ [](\A w \in BackupWorkers :
            HasHeader(log[w]) => Len(log[w].lines) = appends[w] + 1)
    /\ [][\A w \in BackupWorkers :
            appends'[w] = appends[w] + 1 =>
                /\ bak'[w].exists
                /\ bak'[w].lines = log[w].lines
                /\ log'[w].lines = Append(log[w].lines, log'[w].lines[Len(log'[w].lines)])
                /\ HasHeader(log[w]) => Len(log'[w].lines) = appends'[w] + 1]_vars

C4_Witness ==
    /\ pc["mpu"] = "sleep"
    /\ appends["mpu"] = MaxAppends
    /\ Len(log["mpu"].lines) = MaxAppends + 1
    /\ bak["mpu"].lines = SubSeq(log["mpu"].lines, 1, MaxAppends)

\* C5: in every state, stops at any point included, the backup is a prefix
\* of the primary log, and the primary holds one record for every completed
\* append: a stop between backup and append costs the record in flight only.
C5_BackupIsPrefix ==
    \A w \in BackupWorkers :
        /\ bak[w].exists => (log[w].exists /\ IsPrefix(bak[w].lines, log[w].lines))
        /\ Len(RecordsOf(log[w])) = appends[w]

C5_Witness ==
    /\ err["dhtOld"] = "killed"
    /\ appends["dhtOld"] >= 1
    /\ bak["dhtOld"].exists
    /\ bak["dhtOld"].lines = log["dhtOld"].lines

\* C6: every step of every worker leaves the log's previous content as a
\* prefix of its new content, and never removes the file.
C6_AppendOnly ==
    [][\A w \in Workers :
          /\ log[w].exists => log'[w].exists
          /\ IsPrefix(log[w].lines, log'[w].lines)]_vars

C6_Witness ==
    /\ restarts >= 1
    /\ pc["dht"] = "sleep"
    /\ err["dht"] = "none"
    /\ appends["dht"] = MaxAppends
    /\ Len(log["dht"].lines) = MaxAppends + 1

\* C7: a worker whose append failed is still in its sampling loop.
C7_AppendFaultKeepsLoop ==
    \A w \in Workers : err[w] = "append_fault" => pc[w] \in LoopPcs

\* C8: a worker whose acquisition raised a fault is still in its sampling
\* loop.
C8_SensorFaultKeepsSampling ==
    \A w \in Workers : err[w] = "sensor_fault" => pc[w] \in LoopPcs

\* C9: while a DHT worker holds a null or out-of-envelope reading, no step
\* changes its log, its backup or the live-state file, and no append or
\* live-state update is counted.
C9_RejectedWritesNothing ==
    [][\A w \in DhtWorkers :
          (pc[w] \in LoopPcs /\ Rejected(reading[w])) =>
              /\ log' = log
              /\ bak' = bak
              /\ liveFile' = liveFile
              /\ written' = written
              /\ appends' = appends]_vars

C9_Witness ==
    /\ pc["dht"] = "sleep"
    /\ reading["dht"].hum = 9010
    /\ reading["dht"].temp # NoVal
    /\ appends["dht"] >= 1
    /\ liveFile.state = "doc"
    /\ liveFile.doc = written["dht"]

\* C10: a non-null reading passes the check exactly when its humidity is in
\* [20, 90]; every logged record carries a humidity in [20.0, 90.0].
AcceptPc(w) == IF w = "dht" THEN "append" ELSE "backup"
HumField(w, l) == IF w = "dht" THEN l.f[3] * 10 ELSE l.f[3]

C10_EnvelopeBoundary ==
    /\ [](\A w \in DhtWorkers :
            \A i \in 1..Len(log[w].lines) :
                log[w].lines[i].kind = "R" =>
                    /\ 2000 <= HumField(w, log[w].lines[i])
                    /\ HumField(w, log[w].lines[i]) <= 9000)
    /\ [][\A w \in DhtWorkers :
            (pc[w] = "check" /\ pc'[w] \notin {"check", "stopped"}
                 /\ reading[w].hum # NoVal /\ reading[w].temp # NoVal) =>
                (pc'[w] = AcceptPc(w) <=> (2000 <= reading[w].hum /\ reading[w].hum <= 9000))]_vars

C10_Witness ==
    /\ Len(log["dhtOld"].lines) = 3
    /\ log["dhtOld"].lines[2].f[3] = 2000
    /\ log["dhtOld"].lines[3].f[3] = 9000
    /\ pc["dhtOld"] = "sleep"

\* C11: whenever a worker started by the supervisor completes an append, its
\* next step is the live-state update for that reading: it enters
\* write_live_data with the reading's fields.
C11_AppendForwardedToLive ==
    [][\A w \in SupervisedWorkers :
          appends'[w] = appends[w] + 1 => pc'[w] = "live_read"]_vars

\* the record whose fields are the live-state values of the flight DHT logger
LiveRecord(d) == Record(<<d["timestamp"], d["temp"], d["hum"]>>)
InLog(w, l) == \E i \in 1..Len(log[w].lines) : log[w].lines[i] = l

\* C12: in every state the flight DHT logger has completed no more
\* live-state updates than appends; while it is inside write_live_data the
\* data point it carries is the record last appended to its log; and the
\* values it has put in the live-state file are those of a record in its log.
C12_AppendBeforeLive ==
    /\ dumps["dht"] <= appends["dht"]
    /\ pc["dht"] \in LivePcs =>
          /\ log["dht"].lines # <<>>
          /\ log["dht"].lines[Len(log["dht"].lines)] = LiveRecord(data_point["dht"])
    /\ liveFile.state = "doc" => InLog("dht", LiveRecord(liveFile.doc))
    /\ dumps["dht"] > 0 => InLog("dht", LiveRecord(written["dht"]))

C12_Witness ==
    /\ pc["dht"] = "sleep"
    /\ appends["dht"] = MaxAppends
    /\ dumps["dht"] = MaxAppends
    /\ liveFile.state = "doc"
    /\ liveFile.doc = written["dht"]

\* C13: a worker's startup leaves an existing log exactly as it is; on an
\* absent log it creates the file, which holds the header line and nothing
\* else when the startup completes; so a second startup changes nothing.
C13_EnsureIdempotent ==
    [][\A w \in Workers :
          /\ (pc[w] = "main" /\ log[w].exists) => log'[w] = log[w]
          /\ (pc[w] = "main" /\ ~log[w].exists /\ pc'[w] = "header") => log'[w] = File(<<>>)
          /\ (pc[w] = "header" /\ pc'[w] \notin {"header", "stopped"}) =>
                log'[w] = File(<<Header>>)]_vars

\* the MPU logger, started a second time, has passed its startup on a log
\* that holds the header and the records of the first run
C13_Witness ==
    /\ restarts >= 1
    /\ pc["mpu"] = "read"
    /\ err["mpu"] = "none"
    /\ timestamp["mpu"] = 0
    /\ appends["mpu"] >= 1
    /\ HasHeader(log["mpu"])
    /\ Len(log["mpu"].lines) = appends["mpu"] + 1


\* C14: a log that exists and holds any line begins with the header, and
\* every later line is a record with as many fields as the header names.
C14_HeaderThenRecords ==
    \A w \in Workers :
        (log[w].exists /\ log[w].lines # <<>>) =>
            /\ log[w].lines[1] = Header
            /\ \A i \in 2..Len(log[w].lines) :
                  /\ log[w].lines[i].kind = "R"
                  /\ Len(log[w].lines[i].f) = FieldCount(w)

\* the loggers whose main() returns when the log cannot be created
ReturningWorkers == {"dht", "mpu", "dhtOld"}

\* C15: a worker whose log creation failed at startup is stopped; the
\* failing step starts from main() and writes nothing; and as long as the
\* fault stands no step changes the worker's log, backup, append count or
\* reading, or the live-state file.
C15_InitFaultStops ==
    /\ [](\A w \in ReturningWorkers : err[w] = "init_fault" => pc[w] = "stopped")
    /\ [][\A w \in ReturningWorkers :
            (err'[w] = "init_fault" /\ err[w] # "init_fault") =>
                /\ pc[w] = "main"
                /\ pc'[w] = "stopped"
                /\ log' = log /\ bak' = bak /\ appends' = appends
                /\ reading' = reading /\ sample' = sample
                /\ liveFile' = liveFile /\ dumps' = dumps]_vars
    /\ [][\A w \in ReturningWorkers :
            (err[w] = "init_fault" /\ err'[w] = "init_fault") =>
                /\ log' = log /\ bak' = bak /\ appends' = appends
                /\ reading' = reading /\ sample' = sample
                /\ liveFile' = liveFile /\ dumps' = dumps]_vars

C15_Witness ==
    /\ err["dhtOld"] = "init_fault"
    /\ pc["dhtOld"] = "stopped"
    /\ ~log["dhtOld"].exists
    /\ appends["dhtOld"] = 0
    /\ reading["dhtOld"] = NoReading
    /\ liveFile.state = "absent"

\* the log readers. dht_plotter.generate_chart, lines 41-48 (the bench
\* logger's generate_chart, lines 109-116, and dht_plot_data.py read the same
\* way): a line is split into exactly three fields, the first parsed with
\* the full format; a line that does not parse is skipped
Skipped == <<>>
DhtPlotterParse(l) ==
    IF l.kind = "R" /\ Len(l.f) = 3 /\ ParseTime(FmtFull, l.f[1]) # ParseError
    THEN <<ParseTime(FmtFull, l.f[1]), l.f[2], l.f[3]>>
    ELSE Skipped
\* mpu6050_plotter.generate_mpu_chart, lines 87-103
MpuPlotterParse(l) ==
    IF l.kind = "R" /\ Len(l.f) >= 7 /\ ParseTime(FmtFull, l.f[1]) # ParseError
    THEN <<ParseTime(FmtFull, l.f[1])>> \o SubSeq(l.f, 2, 7)
    ELSE Skipped
ReaderParse(w, l) == IF w = "mpu" THEN MpuPlotterParse(l) ELSE DhtPlotterParse(l)

\* the reading a worker is appending: the instant of the sample and its
\* values, rounded as the log format declares
Original(w) ==
    CASE w = "dht" -> <<timestamp[w], Fmt1(reading[w].temp), Fmt1(reading[w].hum)>>
      [] w = "dhtOld" -> <<timestamp[w], reading[w].temp, reading[w].hum>>
      [] w = "mpu" -> <<timestamp[w]>> \o sample

\* C16: the record a worker appends is parsed by the reader of its log into
\* the reading it was written from: same instant, same values.
C16_RoundTrip ==
    [][\A w \in {"dht", "mpu", "dhtOld"} :
          appends'[w] = appends[w] + 1 =>
              ReaderParse(w, log'[w].lines[Len(log'[w].lines)]) = Original(w)]_vars

\* the supervisor is in the loop of monitor_processes
Monitoring == supPc \in {"poll", "sleep"}
InHandles(u) == \E i \in 1..Len(running_processes) : running_processes[i] = u
\* the child process of the unit has ended
Dead(u) == pc[u] = "stopped"
Reported(u) == Msg("ALERT", u) \in printed

\* C19: every poll of a handle whose process has ended reports that unit;
\* from any moment of the monitoring the supervisor comes to a moment where
\* every launched unit that has ended is reported; and the step by which a
\* unit ends, like every step of the supervisor, leaves the other units
\* running and their logs and append counts as they are.
C19_DeathAlertedOthersUntouched ==
    /\ [][(supPc = "poll" /\ <<supPc, idx>>' # <<supPc, idx>>
               /\ Dead(running_processes[idx])) =>
             Msg("ALERT", running_processes[idx]) \in printed']_vars
    /\ Monitoring ~> (\A u \in Units : (InHandles(u) /\ Dead(u)) => Reported(u))
    /\ [][\A u \in Units :
             (~Dead(u) /\ Dead(u)') =>
                 /\ \A v \in Units \ {u} : pc'[v] = pc[v]
                 /\ \A w \in Workers \ {u} : log'[w] = log[w] /\ appends'[w] = appends[w]]_vars
    /\ [][supPc' # supPc =>
             /\ \A w \in Workers : log'[w] = log[w] /\ appends'[w] = appends[w]
             /\ \A u \in Units : pc[u] # "off" => pc'[u] = pc[u]]_vars

\* the sound logger has ended and was reported, and the MPU-6050 logger,
\* still running, has appended all its records
C19_Witness ==
    /\ supPc = "sleep"
    /\ Dead("sound")
    /\ Reported("sound")
    /\ ~Reported("mpu")
    /\ pc["mpu"] = "sleep"
    /\ appends["mpu"] = MaxAppends
    /\ pc["dht"] = "main"

\* the launch loop of launch_processes is over
LaunchOver == supPc \notin {"launch", "settle", "interrupted"}
Attempted(u) == outcome[u] # "none"

\* C17: the handles are, in every state, the units launched so far in the
\* order of PROCESSES; units are attempted in that order; and when the loop
\* is over without the interpreter having been found missing, every unit
\* was attempted, whatever other failures there were.
C17_FailureDoesNotStopLaunch ==
    /\ running_processes = SelectSeq(PROCESSES, LAMBDA u : outcome[u] = "ok")
    /\ \A i \in 1..Len(PROCESSES) :
          Attempted(PROCESSES[i]) => \A j \in 1..(i - 1) : Attempted(PROCESSES[j])
    /\ (LaunchOver /\ \A u \in Units : outcome[u] # "not_found") =>
          \A u \in Units : Attempted(u)

C17_Witness ==
    /\ supPc = "poll"
    /\ outcome = [u \in Units |-> IF u \in {"dht", "sound"} THEN "error" ELSE "ok"]
    /\ running_processes = <<"mpu", "web">>
    /\ pc["mpu"] = "main"
    /\ pc["web"] = "serving"

\* C18: when the launch of a unit found the interpreter missing, no unit
\* after it in PROCESSES is attempted, launched or among the handles.
C18_NotFoundStopsLaunch ==
    \A i \in 1..Len(PROCESSES) :
        outcome[PROCESSES[i]] = "not_found" =>
            \A j \in (i + 1)..Len(PROCESSES) :
                /\ ~Attempted(PROCESSES[j])
                /\ pc[PROCESSES[j]] = "off"
                /\ ~InHandles(PROCESSES[j])

C18_Witness ==
    /\ supPc = "sleep"
    /\ outcome["dht"] = "ok"
    /\ outcome["mpu"] = "not_found"
    /\ running_processes = <<"dht">>
    /\ pc["sound"] = "off"
    /\ pc["web"] = "off"

\* C20: once the launch loop is over the list of handles never changes and
\* no unit is started; and a unit whose process has ended never runs again.
C20_NoRespawn ==
    [][/\ (supPc \notin {"launch", "settle"}) =>
             /\ running_processes' = running_processes
             /\ \A u \in Units : pc[u] = "off" => pc'[u] = "off"
       /\ \A u \in Units : Dead(u) => Dead(u)']_vars

\* the sound logger ended by itself, was reported, and the supervisor has
\* polled again
C20_Witness ==
    /\ supPc = "poll"
    /\ idx = Len(running_processes)
    /\ running_processes = PROCESSES
    /\ Dead("sound")
    /\ err["sound"] = "name_error"
    /\ Reported("sound")

\* --------------------------------------------------------------------- C21
\* the termination sequence has printed its closing message (line 108)
ShutdownDone == Msg("Mission components safely shut down.", "") \in printed
\* a step of the termination loop of lines 100-106
TerminateStep == supPc = "terminate" /\ <<supPc, idx>>' # <<supPc, idx>>
\* the requests of the termination loop: a live handle gets one request (or
\* the failure to send it is printed), a dead one gets none, the loop goes
\* on to the next handle either way, no handle gets two, and no child is
\* ended by force
C21_TerminateRequests ==
    /\ [][TerminateStep =>
            LET u == running_processes[idx] IN
               /\ ~Alive(u) => termSent' = termSent
               /\ Alive(u) => \/ termSent' = Append(termSent, u)
                              \/ /\ termSent' = termSent
                                 /\ Msg("Could not terminate", u) \in printed'
               /\ idx < Len(running_processes) => supPc' = "terminate" /\ idx' = idx + 1
               /\ pc' = pc]_vars
    /\ [](\A i, j \in 1..Len(termSent) : termSent[i] = termSent[j] => i = j)

\* C21: on an operator interrupt during monitoring the supervisor sends a
\* graceful-terminate request exactly once to every handle still alive and
\* none to a dead one, a failed request does not stop the requests after
\* it, no child is force-killed, and the null-output sink opened at line 45
\* is closed when the termination sequence is over
C21_ShutdownTerminatesAndCloses ==
    /\ C21_TerminateRequests
    /\ [](ShutdownDone /\ supPc # "close" => DEVNULL = "closed")

\* --------------------------------------------------------------------- C22
\* no terminate() of the termination sequence raised
AllTerminated == \A u \in Units : Msg("Could not terminate", u) \notin printed

\* C22: after an interrupt-driven shutdown in which every terminate
\* request succeeded the supervisor ends by returning from
\* launch_processes (exit code 0): the shutdown sequence raises no error
C22_CleanShutdownExitsZero ==
    (ShutdownDone /\ AllTerminated /\ supPc # "close") => supPc = "exited"

\* --------------------------------------------------------------------- C23
\* the supervisor has ended after an operator interrupt
EndedByInterrupt == supPc \in {"interrupted", "name_error"}
\* a terminate request for unit u was made: sent, or tried and reported
Requested(u) ==
    \/ \E i \in 1..Len(termSent) : termSent[i] = u
    \/ Msg("Could not terminate", u) \in printed

\* C23: an operator interrupt at any moment after the first launch, in the
\* launch loop and its delays as well as in monitoring, reaches every
\* launched worker: when the supervisor has ended, every launched worker
\* that is still alive was sent a terminate request
C23_InterruptReachesEveryWorker ==
    EndedByInterrupt =>
        \A u \in Units : (InHandles(u) /\ Alive(u)) => Requested(u)

\* --------------------------------------------------------------------- C24
\* a whole line: ended by its newline, and the header or a record with as
\* many fields as the header names
Complete(w, l) == l.nl /\ (l.kind = "H" \/ Len(l.f) = FieldCount(w))
\* the worker was ended by a stop signal or an interrupt
Stopped(w) == pc[w] = "stopped" /\ err[w] = "killed"

\* C24: when a stop signal or an interrupt reaches a worker at any point
\* of its loop, the log it leaves holds complete lines only: every line,
\* the last one included, ends with its newline and has the full field
\* count.
C24_NoPartialRecord ==
    \A w \in Workers :
        (Stopped(w) /\ log[w].exists) =>
            \A i \in 1..Len(log[w].lines) : Complete(w, log[w].lines[i])
\* the MPU-6050 logger is stopped between its sample and the append of a
\* later cycle: the log holds the earlier record and not the current one
C24_Witness ==
    /\ Stopped("mpu")
    /\ appends["mpu"] >= 1
    /\ sample # NoSample
    /\ log["mpu"].exists
    /\ Len(log["mpu"].lines) >= 2
    /\ log["mpu"].lines[Len(log["mpu"].lines)] # MpuLine(timestamp["mpu"], sample)

\* --------------------------------------------------------------------- C25
\* a line as the logger of log w writes it: all its fields, every value a
\* number
WellFormed(w, l) ==
    /\ l.kind = "R"
    /\ Len(l.f) = FieldCount(w)
    /\ \A i \in 2..Len(l.f) : l.f[i] # Garbled
\* the log read holds the header and well-formed records only
WellFormedLog ==
    /\ data # <<>>
    /\ data[1] = Header
    /\ \A i \in 2..Len(data) : WellFormed(reader, data[i])
\* run k has read the log
Scanned(k) == rpc[k] \notin {"off", "scan"}
Min(a, b) == IF a <= b THEN a ELSE b
\* the last m records of the log read, as raw points
LastPoints(m, field) ==
    [i \in 1..m |->
        LET l == data[Len(data) - m + i] IN
        IF field = 1 THEN ParseTime(FmtFull, l.f[1]) ELSE l.f[field]]

\* C25: on a log of a header and L well-formed records generate_chart
\* reads a raw series of exactly min(L, MAX_CHART_POINTS) points, the last
\* min(L, MAX_CHART_POINTS) records of the log in their order.
C25_WindowIsLastMaxPoints ==
    \A k \in Runs :
        (reader = "dhtOld" /\ Scanned(k) /\ WellFormedLog) =>
            LET m == Min(Len(data) - 1, MAX_CHART_POINTS) IN
               /\ dates[k] = LastPoints(m, 1)
               /\ temps[k] = LastPoints(m, 2)
               /\ hums[k] = LastPoints(m, 3)

\* --------------------------------------------------------------------- C26
\* run k has computed its moving averages
Smoothed(k) == reader = "dhtOld" /\ rpc[k] \in {"rename", "savefig", "done"}
\* w times the mean of the w values of xs from position i on
RECURSIVE WindowSum(_, _, _)
WindowSum(xs, i, w) == IF w = 0 THEN 0 ELSE xs[i + w - 1] + WindowSum(xs, i, w - 1)
\* ma is the series of the means of w consecutive values of xs, and no
\* series at all when xs has fewer than w values
IsMovingAverage(ma, xs, w) ==
    IF Len(xs) >= w
    THEN /\ Len(ma) = Len(xs) - w + 1
         /\ \A i \in 1..Len(ma) : ma[i] = WindowSum(xs, i, w)
    ELSE ma = <<>>
\* the smoothing of whatever window was read
C26_SmoothingOfWindow ==
    \A k \in Runs :
        Smoothed(k) =>
            /\ IsMovingAverage(temp_ma[k], temps[k], MOVING_AVG_POINTS)
            /\ IsMovingAverage(hum_ma[k], hums[k], MOVING_AVG_POINTS)

\* C26: a window of n points and a smoothing window w give a smoothed
\* series of n - w + 1 values per field when n >= w, each the mean of w
\* consecutive raw values, and none, without error, when n < w; a log of
\* more than MAX_CHART_POINTS well-formed records gives a smoothed series
\* of MAX_CHART_POINTS - w + 1 values (116 for 120 and 5).
C26_SmoothedLength ==
    /\ C26_SmoothingOfWindow
    /\ \A k \in Runs :
          (Smoothed(k) /\ WellFormedLog /\ Len(data) - 1 > MAX_CHART_POINTS) =>
              /\ Len(temp_ma[k]) = MAX_CHART_POINTS - MOVING_AVG_POINTS + 1
              /\ Len(hum_ma[k]) = MAX_CHART_POINTS - MOVING_AVG_POINTS + 1

\* --------------------------------------------------------------------- C27
\* the scan of run k was ended by an exception
Aborted(k) == rpc[k] = "value_error"
\* some well-formed line of the log read carries value v in field n, the
\* first field being read as a date
FromWellFormed(n, v) ==
    \E j \in 1..Len(data) :
        /\ WellFormed(reader, data[j])
        /\ v = IF n = 1 THEN ParseTime(FmtFull, data[j].f[1]) ELSE data[j].f[n]
\* every value of the series of run k was read from a well-formed line
OnlyWellFormedValues(k) ==
    /\ \A i \in 1..Len(dates[k]) : FromWellFormed(1, dates[k][i])
    /\ \A i \in 1..Len(temps[k]) : FromWellFormed(2, temps[k][i])
    /\ \A i \in 1..Len(hums[k]) : FromWellFormed(3, hums[k][i])
    /\ \A i \in 1..Len(values[k]) :
          IF reader = "mpu"
          THEN \A n \in 1..6 : FromWellFormed(n + 1, values[k][i][n])
          ELSE FromWellFormed(2, values[k][i])

\* C27: every log reader (DHT, MPU, sound) passes over a malformed line,
\* be it a line of the wrong field count, a line with a value that is no
\* number or the header, and goes on: no such line ends the scan, and no
\* value of any series comes from one.
C27_MalformedLinesSkipped ==
    \A k \in Runs : Scanned(k) => (~Aborted(k) /\ OnlyWellFormedValues(k))

\* --------------------------------------------------------------------- C28
\* all that run k derived from the log for its chart
Output(k) ==
    [raw |-> <<dates[k], temps[k], hums[k]>>,
     smoothed |-> <<temp_ma[k], hum_ma[k]>>,
     title |-> title_str[k]]

\* C28: the summarizer is deterministic: two runs of generate_chart on the
\* same log with the same parameters, in two processes started at
\* different times, give the same output: raw series, smoothed series and
\* the start, end and duration the chart reports.
C28_SameLogSameOutput ==
    (reader = "dhtOld" /\ rpc[1] = "done" /\ rpc[2] = "done") => Output(1) = Output(2)

\* --------------------------------------------------------------------- C29
\* the step of run k that takes the chart path for the new chart
TakesChartPath(k) == rpc[k] \in {"rename", "open"} /\ rpc'[k] = "savefig"
\* the chart that was there when a generation took the path is at the
\* backup path afterwards
C29_BackupHoldsPrevious ==
    [][\A k \in Runs : (TakesChartPath(k) /\ chart # 0) => chartBak' = chart]_vars

\* C29: chart generation keeps one previous version and replaces the chart
\* atomically: the chart that existed before a generation is at the backup
\* path afterwards, and at no point of a generation is the chart path
\* without a whole chart.
C29_ChartReplacedAtomically ==
    /\ C29_BackupHoldsPrevious
    /\ [][chart # 0 => chart' # 0]_vars

\* --------------------------------------------------------------------- C30
\* worker w is ended from outside in this step
KilledNow(w) == err'[w] = "killed"
\* worker w leaves position p of its loop in this step
Leaves(w, p) == pc[w] = p /\ pc'[w] # p

\* C30: a DHT worker whose acquisition fails in k cycles in a row, k as
\* large as may be (the flight logger's are counted), writes nothing to its log or to the live-state file in
\* those cycles, goes from each failed cycle to the same sleep and from the
\* sleep to the next read (no backoff, no exit), and goes on to the append
\* in the first cycle that yields a valid reading.
C30_FailedCyclesRetry ==
    [][\A w \in DhtWorkers :
          /\ (Leaves(w, "check") /\ Rejected(reading[w]) /\ ~KilledNow(w)) =>
                (pc'[w] = "sleep" /\ (w = "dht" => misses' = misses + 1))
          /\ (Leaves(w, "sleep") /\ ~KilledNow(w)) => pc'[w] = "read"
          /\ (pc[w] \in LoopPcs /\ Rejected(reading[w])) =>
                (log'[w] = log[w] /\ liveFile' = liveFile)
          /\ (Leaves(w, "check") /\ ~Rejected(reading[w]) /\ ~KilledNow(w)) =>
                pc'[w] \in {"append", "backup"}]_vars
\* the flight DHT logger has appended a record in the cycle after
\* MaxMisses failed cycles in a row, having appended one before them
C30_Witness ==
    /\ misses = MaxMisses
    /\ appends["dht"] >= 2
    /\ pc["dht"] = "live_read"
    /\ ~Rejected(reading["dht"])
    /\ Last(log["dht"].lines) = DhtLine(timestamp["dht"], reading["dht"])

\* --------------------------------------------------------------------- C31
\* the lines of the window that the scan accepts: three fields, a date and
\* two numbers
Accepted == SelectSeq(Window(data), HumOk)
\* the series a scan that takes all three entries of a line, or none, reads
AlignedSeries(n) ==
    [i \in 1..Len(Accepted) |->
        IF n = 1 THEN ParseTime(FmtFull, Accepted[i].f[1]) ELSE ParseFloat(Accepted[i].f[n])]

\* C31: after generate_chart has scanned the window, dates, temps and hums
\* have the same length and their i-th entries come from the same log
\* line: a line that is rejected, for its date, its temperature or its
\* humidity, has an entry in none of the three.
C31_SeriesAligned ==
    \A k \in Runs :
        (reader = "dhtOld" /\ Scanned(k)) =>
            /\ Len(dates[k]) = Len(temps[k])
            /\ Len(temps[k]) = Len(hums[k])
            /\ dates[k] = AlignedSeries(1)
            /\ temps[k] = AlignedSeries(2)
            /\ hums[k] = AlignedSeries(3)

\* --------------------------------------------------------------------- C32
\* the status line of line 74 was printed
AllLaunchedReported == Msg("All processes launched successfully.", "") \in printed

\* C32: the supervisor prints "All processes launched successfully." only
\* when every unit of PROCESSES was launched: after a launch that failed,
\* or a loop that was left early, the line is not printed.
C32_SuccessMeansAllLaunched ==
    AllLaunchedReported => \A u \in Units : outcome[u] = "ok"

\* --------------------------------------------------------------------- C33
\* the supervisor has reported unit u as stopped (line 104)
ReportedStopped(u) == Msg("STOPPED", u) \in printed

\* C33: when the supervisor has reported a worker as stopped and has
\* reported the mission components as safely shut down, that worker has
\* exited: the shutdown sequence is not finished while a worker that was
\* sent a terminate request still runs or still writes.
C33_StoppedMeansExited ==
    \A u \in Units : (ShutdownDone /\ ReportedStopped(u)) => ~Alive(u)

\* --------------------------------------------------------------------- C34
\* a step of the supervisor inside the monitor loop: the poll of one handle
PollStep == supPc = "poll" /\ <<supPc, idx>>' # <<supPc, idx>> /\ supPc' # "terminate"
\* the step that begins the termination sequence (line 97)
InterruptStep ==
    /\ supPc' = "terminate"
    /\ Msg("TERMINATION SEQUENCE INITIATED", "") \in printed'
\* the handles
Handles == {running_processes[i] : i \in 1..Len(running_processes)}
\* every handle's process has ended
AllDead == \A u \in Handles : ~Alive(u)

\* C34: once a unit was launched the supervisor enters the monitor loop
\* and leaves it through an operator interrupt only: each pass polls every
\* handle in turn and then sleeps, a pass is followed by the next also
\* when every worker has died, and every pass prints the ALERT line of
\* each handle it finds dead, whether or not an earlier pass printed it.
C34_MonitorEndsOnlyByInterrupt ==
    /\ [][(supPc = "status" /\ running_processes # <<>> /\ supPc' # supPc) =>
             (supPc' = "poll" /\ idx' = 1) \/ supPc' = "interrupted"]_vars
    /\ [][Monitoring => (Monitoring' \/ InterruptStep)]_vars
    /\ [][PollStep =>
            LET u == running_processes[idx] IN
               /\ alerts' = IF Alive(u) THEN alerts ELSE alerts \cup {u}
               /\ ~Alive(u) => Msg("ALERT", u) \in printed'
               /\ IF idx < Len(running_processes)
                  THEN supPc' = "poll" /\ idx' = idx + 1
                  ELSE supPc' = "sleep"]_vars
    /\ [][(supPc = "sleep" /\ supPc' # supPc) =>
             (supPc' = "poll" /\ idx' = 1 /\ alerts' = {}) \/ InterruptStep]_vars
    /\ [](Monitoring => running_processes # <<>>)
\* every launched worker has died and was reported, and a pass begun after
\* that has printed the ALERT line of the first handle
C34_Witness ==
    /\ supPc = "poll"
    /\ idx = 2
    /\ Len(running_processes) >= 2
    /\ AllDead
    /\ \A u \in Handles : Reported(u)
    /\ alerts = {running_processes[1]}

\* --------------------------------------------------------------------- C35
\* the 16-bit word of the two bytes read, as an unsigned number
Unsigned == high * 256 + low

\* C35: read_word_2c returns the 16-bit two's-complement value of the
\* high and the low register byte: with v = high * 256 + low it returns v
\* when v < 32768 and v - 65536 otherwise, a value from -32768 to 32767.
C35_TwosComplement ==
    (bus = "open" /\ word # <<>>) =>
        /\ word[1] = IF Unsigned < 32768 THEN Unsigned ELSE Unsigned - 65536
        /\ word[1] \in -32768..32767
\* the word 0x8000 was read: the least value
C35_Witness == bus = "open" /\ high = 128 /\ low = 0 /\ word = <<-32768>>

====
